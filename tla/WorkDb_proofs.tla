--------------------------- MODULE WorkDb_proofs ---------------------------
(***************************************************************************)
(* Machine-checked proofs about WorkDb, for every set of pairs, days, orgs *)
(* and contents and every number of transactions.                          *)
(***************************************************************************)
EXTENDS WorkDb, FiniteSetTheorems, TLAPS

-----------------------------------------------------------------------------
(* What the two statements of a commit do to a table. *)

\* The upsert followed by the retraction leaves the offered keys live with the
\* offered bodies, every other key of the scope not live, keys outside the
\* scope alone, and it writes exactly the rows it changes.
Synced(K, R, t, scope, new) ==
    /\ Sync(t, new, scope) \in [K -> R \cup {Absent}]
    /\ \A k \in K \ scope : Sync(t, new, scope)[k] = t[k]
    /\ \A k \in DOMAIN new : Sync(t, new, scope)[k] = [body |-> new[k], live |-> TRUE]
    /\ \A k \in scope \ DOMAIN new :
          \/ Sync(t, new, scope)[k] = Absent
          \/ Sync(t, new, scope)[k].live = FALSE
    /\ Touched(t, new, scope) = {k \in K : Sync(t, new, scope)[k] # t[k]}
    /\ \A k \in Touched(t, new, scope) : Sync(t, new, scope)[k] \in R

LEMMA SyncLemma ==
    ASSUME NEW K, NEW B, NEW R, R = [body : B, live : BOOLEAN], Absent \notin R,
           NEW t, t \in [K -> R \cup {Absent}],
           NEW scope, scope \subseteq K, NEW new,
           DOMAIN new \subseteq scope, \A k \in DOMAIN new : new[k] \in B
    PROVE  Synced(K, R, t, scope, new)
<1> DEFINE U == Upserted(t, new)
           V == Retracted(t, new, scope)
           s == Sync(t, new, scope)
<1>1. /\ DOMAIN t = K
      /\ DOMAIN new \subseteq K
      /\ U \subseteq DOMAIN new
      /\ V \subseteq scope \ DOMAIN new
      /\ \A k \in DOMAIN new :
            k \notin U => t[k] # Absent /\ t[k].body = new[k] /\ t[k].live
      /\ \A k \in DOMAIN new :
            k \in U => t[k] = Absent \/ t[k].body # new[k] \/ ~t[k].live
      /\ \A k \in scope \ DOMAIN new : k \in V <=> t[k] # Absent /\ t[k].live
  BY DEF Upserted, Retracted
<1>2. s = [k \in K |-> IF k \in U THEN [body |-> new[k], live |-> TRUE]
                       ELSE IF k \in V THEN [body |-> t[k].body, live |-> FALSE]
                       ELSE t[k]]
  BY <1>1 DEF Sync
<1>3. Touched(t, new, scope) = U \cup V
  BY DEF Touched
<1> HIDE DEF U, V, s
<1>4. ASSUME NEW k \in DOMAIN new
      PROVE  /\ s[k] \in R
             /\ s[k] = [body |-> new[k], live |-> TRUE]
             /\ k \in U <=> s[k] # t[k]
             /\ k \notin V
  <2>1. k \in K /\ k \notin V /\ [body |-> new[k], live |-> TRUE] \in R
    BY <1>1
  <2>2. CASE k \in U
    <3>1. s[k] = [body |-> new[k], live |-> TRUE]
      BY <1>2, <2>1, <2>2
    <3>2. s[k].body = new[k] /\ s[k].live /\ s[k] # Absent
      <4>1. s[k] # Absent
        BY <3>1, <2>1
      <4>2. s[k].body = new[k]
        BY <3>1
      <4>3. s[k].live
        BY <3>1
      <4> QED  BY <4>1, <4>2, <4>3
    <3>3. s[k] # t[k]
      BY <1>1, <2>2, <3>2
    <3> QED  BY <2>1, <2>2, <3>1, <3>3
  <2>3. CASE k \notin U
    <3>1. s[k] = t[k]
      BY <1>2, <2>1, <2>3
    <3>2. t[k] \in R /\ t[k].body = new[k] /\ t[k].live
      BY <1>1, <2>1, <2>3
    <3>3. t[k] = [body |-> new[k], live |-> TRUE]
      BY <3>2
    <3> QED  BY <2>1, <2>3, <3>1, <3>3
  <2> QED  BY <2>2, <2>3
<1>5. ASSUME NEW k \in scope \ DOMAIN new
      PROVE  /\ s[k] \in R \cup {Absent}
             /\ s[k] = Absent \/ s[k].live = FALSE
             /\ k \in V <=> s[k] # t[k]
             /\ k \in V => s[k] \in R
             /\ k \notin U
  <2>1. k \in K /\ k \notin U
    BY <1>1
  <2>2. CASE k \in V
    <3>1. t[k] \in R /\ t[k].live
      BY <1>1, <2>1, <2>2
    <3>2. s[k] = [body |-> t[k].body, live |-> FALSE]
      BY <1>2, <2>1, <2>2
    <3>3. s[k] \in R /\ s[k].live = FALSE
      BY <3>1, <3>2
    <3> QED  BY <2>1, <2>2, <3>1, <3>3
  <2>3. CASE k \notin V
    <3>1. s[k] = t[k]
      BY <1>2, <2>1, <2>3
    <3>2. t[k] = Absent \/ (t[k] \in R /\ ~t[k].live)
      BY <1>1, <2>1, <2>3
    <3>3. t[k] = Absent \/ t[k].live = FALSE
      BY <3>2
    <3> QED  BY <2>1, <2>3, <3>1, <3>3
  <2> QED  BY <2>2, <2>3
<1>6. ASSUME NEW k \in K \ scope
      PROVE  s[k] = t[k] /\ k \notin U \cup V
  BY <1>1, <1>2
<1>7. s \in [K -> R \cup {Absent}]
  <2>1. ASSUME NEW k \in K PROVE s[k] \in R \cup {Absent}
    BY <1>1, <1>4, <1>5, <1>6
  <2> QED  BY <1>2, <2>1
<1>8. U \cup V = {k \in K : s[k] # t[k]}
  <2>1. ASSUME NEW k \in K PROVE k \in U \cup V <=> s[k] # t[k]
    BY <1>4, <1>5, <1>6
  <2>2. U \cup V \subseteq K
    BY <1>1
  <2> QED  BY <2>1, <2>2
<1>9. \A k \in U \cup V : s[k] \in R
  BY <1>1, <1>4, <1>5
<1> QED  BY <1>3, <1>4, <1>5, <1>6, <1>7, <1>8, <1>9 DEF s, Synced

\* What is offered is what is live already: both WHERE clauses are false for every row.
LEMMA NothingNew ==
    ASSUME NEW K, NEW R, NEW t, t \in [K -> R \cup {Absent}],
           NEW scope, scope \subseteq K, NEW new, DOMAIN new \subseteq scope,
           \A k \in scope : k \in DOMAIN new <=> t[k] # Absent /\ t[k].live,
           \A k \in DOMAIN new : t[k].body = new[k]
    PROVE  Touched(t, new, scope) = {} /\ Sync(t, new, scope) = t
<1>1. Upserted(t, new) = {}
  BY DEF Upserted
<1>2. Retracted(t, new, scope) = {}
  BY DEF Retracted
<1>3. Sync(t, new, scope) = [k \in DOMAIN t |-> t[k]]
  BY <1>1, <1>2 DEF Sync
<1> QED  BY <1>1, <1>2, <1>3 DEF Touched

-----------------------------------------------------------------------------
(* One transaction. *)

\* What a transaction must satisfy to be captured faithfully: the tables it
\* leaves are well typed and the rows it reports are all those it changed.
Captures(new, touched) ==
    /\ IsImage(new)
    /\ \A t \in Tables :
         /\ touched[t] \subseteq Keys[t]
         /\ \A k \in touched[t] : new[t][k] \in Rows[t]
         /\ \A k \in Keys[t] \ touched[t] : new[t][k] = db[t][k]

\* Whatever the transaction writes, the queue stays well formed and draining it
\* still leads the replica to the tables.
LEMMA CommitLemma ==
    ASSUME TypeOK, NEW new, NEW touched, Commit(new, touched), Captures(new, touched)
    PROVE  /\ IsImage(db') /\ IsImage(replica')
           /\ clock' \in 0..MaxCommits /\ drained' \in 0..clock'
           /\ DOMAIN outbox' = drained' + 1 .. clock'
           /\ \A i \in DOMAIN outbox' : IsBatch(outbox'[i])
           /\ ReplicaFollows => ReplicaFollows'
           /\ \A t \in Tables : DOMAIN outbox'[clock'][t] = touched[t]
<1> DEFINE b == [t \in Captured |-> [k \in touched[t] |-> new[t][k]]]
<1>1. /\ clock \in Nat /\ drained \in Nat /\ MaxCommits \in Nat
      /\ drained <= clock /\ clock < MaxCommits
      /\ clock' = clock + 1 /\ drained' = drained
      /\ db' = new /\ replica' = replica
      /\ DOMAIN outbox = drained + 1 .. clock
  BY WorkDbAssumption DEF TypeOK, Commit
<1>2. outbox' = [i \in drained + 1 .. clock + 1 |-> IF i <= clock THEN outbox[i] ELSE b]
  BY DEF Commit
<1> HIDE DEF b
<1>3. /\ DOMAIN outbox' = drained + 1 .. clock + 1
      /\ \A i \in drained + 1 .. clock : outbox'[i] = outbox[i]
      /\ outbox'[clock + 1] = b
  BY <1>1, <1>2
<1>4. \A t \in Tables : DOMAIN b[t] = touched[t] /\ \A k \in touched[t] : b[t][k] = new[t][k]
  BY DEF b, Captured
<1>5. IsBatch(b)
  <2>1. DOMAIN b = Captured
    BY DEF b
  <2> QED  BY <1>4, <2>1 DEF IsBatch, Captures, Captured
<1>6. \A i \in DOMAIN outbox' : IsBatch(outbox'[i])
  <2> SUFFICES ASSUME NEW i \in drained + 1 .. clock + 1
               PROVE  IsBatch(outbox'[i])
    BY <1>3
  <2>1. i \in drained + 1 .. clock \/ i = clock + 1
    BY <1>1
  <2> QED  BY <2>1, <1>1, <1>3, <1>5 DEF TypeOK
<1>7. ASSUME ReplicaFollows
      PROVE  ReplicaFollows'
  <2> SUFFICES ASSUME NEW t \in Tables, NEW k \in Keys[t]
               PROVE  \/ /\ \A i \in DOMAIN outbox' : k \notin DOMAIN outbox'[i][t]
                         /\ replica'[t][k] = db'[t][k]
                      \/ \E i \in DOMAIN outbox' :
                            /\ k \in DOMAIN outbox'[i][t]
                            /\ outbox'[i][t][k] = db'[t][k]
                            /\ \A j \in DOMAIN outbox' : j > i => k \notin DOMAIN outbox'[j][t]
    BY DEF ReplicaFollows, Captured
  <2>1. \/ /\ \A i \in DOMAIN outbox : k \notin DOMAIN outbox[i][t]
           /\ replica[t][k] = db[t][k]
        \/ \E i \in DOMAIN outbox :
              /\ k \in DOMAIN outbox[i][t]
              /\ outbox[i][t][k] = db[t][k]
              /\ \A j \in DOMAIN outbox : j > i => k \notin DOMAIN outbox[j][t]
    BY <1>7 DEF ReplicaFollows, Captured
  <2>2. CASE k \in touched[t]
    <3>1. clock + 1 \in DOMAIN outbox'
      BY <1>1, <1>3
    <3>2. k \in DOMAIN outbox'[clock + 1][t] /\ outbox'[clock + 1][t][k] = db'[t][k]
      BY <1>1, <1>3, <1>4, <2>2
    <3>3. \A j \in DOMAIN outbox' : ~(j > clock + 1)
      BY <1>1, <1>3
    <3> QED  BY <3>1, <3>2, <3>3
  <2>3. CASE k \notin touched[t]
    <3>1. db'[t][k] = db[t][k] /\ k \notin DOMAIN outbox'[clock + 1][t]
      BY <1>1, <1>3, <1>4, <2>3 DEF Captures
    <3>2. \A i \in DOMAIN outbox' : i \in DOMAIN outbox \/ i = clock + 1
      BY <1>1, <1>3
    <3>3. \A i \in DOMAIN outbox : i \in DOMAIN outbox' /\ outbox'[i] = outbox[i]
      BY <1>1, <1>3
    <3>4. CASE /\ \A i \in DOMAIN outbox : k \notin DOMAIN outbox[i][t]
               /\ replica[t][k] = db[t][k]
      BY <1>1, <3>1, <3>2, <3>3, <3>4
    <3>5. CASE \E i \in DOMAIN outbox :
                  /\ k \in DOMAIN outbox[i][t]
                  /\ outbox[i][t][k] = db[t][k]
                  /\ \A j \in DOMAIN outbox : j > i => k \notin DOMAIN outbox[j][t]
      BY <3>1, <3>2, <3>3, <3>5
    <3> QED  BY <2>1, <3>4, <3>5
  <2> QED  BY <2>2, <2>3
<1>8. clock' \in 0..MaxCommits /\ drained' \in 0..clock' /\ DOMAIN outbox' = drained' + 1 .. clock'
  BY <1>1, <1>3
<1>9. IsImage(db') /\ IsImage(replica')
  BY <1>1 DEF TypeOK, Captures
<1>10. \A t \in Tables : DOMAIN outbox'[clock'][t] = touched[t]
  BY <1>1, <1>3, <1>4
<1> QED  BY <1>6, <1>7, <1>8, <1>9, <1>10
-----------------------------------------------------------------------------
(* Each method of WorkDb is such a transaction. *)

\* The event of a transaction for network_contact and orgs: the rows it changed.
Quiet ==
    \A t \in {"network_contact", "orgs"} :
        DOMAIN outbox'[clock'][t] = {k \in Keys[t] : db'[t][k] # db[t][k]}

LEMMA KeysRows ==
    /\ Keys["network_contact"] = Pair \X Day /\ Rows["network_contact"] = ContactRow
    /\ Keys["orgs"] = Org                    /\ Rows["orgs"] = OrgRow
    /\ Keys["signal_runs"] = Day             /\ Rows["signal_runs"] = SignalRunRow
    /\ Keys["org_map_runs"] = Day            /\ Rows["org_map_runs"] = OrgMapRunRow
    /\ \A t \in Tables : Absent \notin Rows[t]
BY WorkDbAssumption DEF Keys, Rows

LEMMA PartialFnLemma ==
    ASSUME NEW S, NEW T, NEW f \in PartialFn(S, T)
    PROVE  DOMAIN f \subseteq S /\ \A k \in DOMAIN f : f[k] \in T
BY DEF PartialFn

\* commit_org_map: what it leaves in each table and what it reports.
LEMMA OrgMapStep ==
    ASSUME TypeOK, NEW day \in Day, NEW crawl \in PartialFn(Org, Rec),
           CommitOrgMap(day, crawl)
    PROVE  /\ TypeOK'
           /\ ReplicaFollows => ReplicaFollows'
           /\ Quiet
           /\ clock' = clock + 1
           /\ db'["network_contact"] = db["network_contact"]
           /\ db'["signal_runs"] = db["signal_runs"]
           /\ Synced(Org, OrgRow, db["orgs"], Org, crawl)
           /\ db'["orgs"] = Sync(db["orgs"], crawl, Org)
           /\ db'["org_map_runs"] =
                 [db["org_map_runs"] EXCEPT ![day] =
                    [finished |-> clock + 1, count |-> Cardinality(LiveKeys(db'["orgs"]))]]
<1> DEFINE orgs == Sync(db["orgs"], crawl, Org)
           row == [finished |-> clock + 1, count |-> Cardinality(LiveKeys(orgs))]
           new == [db EXCEPT !["orgs"] = orgs,
                             !["org_map_runs"] = RunUpsert(@, day, row)]
           touched == [t \in Tables |->
                         CASE t = "orgs"         -> Touched(db["orgs"], crawl, Org)
                           [] t = "org_map_runs" -> {day}
                           [] OTHER              -> {}]
<1>1. Commit(new, touched) /\ pairState' = pairState
  BY DEF CommitOrgMap
<1>2. /\ DOMAIN db = Tables /\ db["orgs"] \in [Org -> OrgRow \cup {Absent}]
      /\ db["org_map_runs"] \in [Day -> OrgMapRunRow \cup {Absent}]
      /\ clock \in Nat /\ clock + 1 \in Nat
  BY KeysRows, WorkDbAssumption DEF TypeOK, IsImage, Tables
<1>3. /\ DOMAIN new = Tables
      /\ new["orgs"] = orgs
      /\ new["org_map_runs"] = [db["org_map_runs"] EXCEPT ![day] = row]
      /\ new["network_contact"] = db["network_contact"]
      /\ new["signal_runs"] = db["signal_runs"]
  BY <1>2 DEF RunUpsert, Tables
<1>4. /\ touched["orgs"] = Touched(db["orgs"], crawl, Org)
      /\ touched["org_map_runs"] = {day}
      /\ touched["network_contact"] = {} /\ touched["signal_runs"] = {}
  BY DEF Tables
<1>5. /\ DOMAIN crawl \subseteq Org
      /\ \A k \in DOMAIN crawl : crawl[k] \in Rec
  BY PartialFnLemma
<1>6. /\ Synced(Org, OrgRow, db["orgs"], Org, crawl)
      /\ orgs \in [Org -> OrgRow \cup {Absent}]
      /\ Touched(db["orgs"], crawl, Org) = {k \in Org : orgs[k] # db["orgs"][k]}
      /\ \A k \in Touched(db["orgs"], crawl, Org) : orgs[k] \in OrgRow
  <2>1. OrgRow = [body : Rec, live : BOOLEAN] /\ Absent \notin OrgRow
    BY KeysRows DEF OrgRow, Tables
  <2>2. Synced(Org, OrgRow, db["orgs"], Org, crawl)
    BY SyncLemma, <2>1, <1>2, <1>5, Zenon
  <2> QED  BY <2>2 DEF Synced
<1>7. row \in OrgMapRunRow
  <2>1. IsFiniteSet(LiveKeys(orgs))
    <3>1. LiveKeys(orgs) \subseteq Org
      BY <1>6 DEF LiveKeys
    <3> QED  BY <3>1, WorkDbAssumption, FS_Subset
  <2> QED  BY <2>1, <1>2, FS_CardinalityType DEF OrgMapRunRow
<1> HIDE DEF orgs, row, new, touched
<1>8. Captures(new, touched)
  <2>1. IsImage(new)
    <3> SUFFICES ASSUME NEW t \in Tables
                 PROVE  new[t] \in [Keys[t] -> Rows[t] \cup {Absent}]
      BY <1>3 DEF IsImage
    <3>1. CASE t = "orgs"
      BY <3>1, <1>3, <1>6, KeysRows
    <3>2. CASE t = "org_map_runs"
      BY <3>2, <1>2, <1>3, <1>7, KeysRows
    <3>3. CASE t = "network_contact" \/ t = "signal_runs"
      BY <3>3, <1>3 DEF TypeOK, IsImage
    <3> QED  BY <3>1, <3>2, <3>3 DEF Tables
  <2>2. ASSUME NEW t \in Tables
        PROVE  /\ touched[t] \subseteq Keys[t]
               /\ \A k \in touched[t] : new[t][k] \in Rows[t]
               /\ \A k \in Keys[t] \ touched[t] : new[t][k] = db[t][k]
    <3>1. CASE t = "orgs"
      BY <3>1, <1>3, <1>4, <1>6, KeysRows
    <3>2. CASE t = "org_map_runs"
      BY <3>2, <1>2, <1>3, <1>4, <1>7, KeysRows
    <3>3. CASE t = "network_contact" \/ t = "signal_runs"
      BY <3>3, <1>3, <1>4
    <3> QED  BY <3>1, <3>2, <3>3 DEF Tables
  <2> QED  BY <2>1, <2>2 DEF Captures
<1>9. /\ TypeOK' /\ (ReplicaFollows => ReplicaFollows')
      /\ \A t \in Tables : DOMAIN outbox'[clock'][t] = touched[t]
  BY <1>1, <1>8, CommitLemma DEF TypeOK
<1>10. db' = new /\ clock' = clock + 1
  BY <1>1 DEF Commit
<1>11. Quiet
  BY <1>3, <1>4, <1>6, <1>9, <1>10, KeysRows DEF Quiet, Tables
<1> QED  BY <1>3, <1>6, <1>9, <1>10, <1>11 DEF row, orgs

\* commit_signal_run touches its own row and nothing else.
LEMMA SignalRunStep ==
    ASSUME TypeOK, NEW day \in Day, NEW status \in Status, CommitSignalRun(day, status)
    PROVE  /\ TypeOK'
           /\ ReplicaFollows => ReplicaFollows'
           /\ Quiet
           /\ clock' = clock + 1
           /\ status # "ok"
           /\ \A t \in Tables \ {"signal_runs"} : db'[t] = db[t]
           /\ db'["signal_runs"] =
                 [db["signal_runs"] EXCEPT ![day] =
                    [status |-> status, prior |-> Absent, count |-> 0,
                     finished |-> clock + 1]]
<1> DEFINE row == [status |-> status, prior |-> Absent, count |-> 0,
                   finished |-> clock + 1]
           new == [db EXCEPT !["signal_runs"] = RunUpsert(@, day, row)]
           touched == [t \in Tables |-> IF t = "signal_runs" THEN {day} ELSE {}]
<1>1. Commit(new, touched) /\ pairState' = pairState /\ status # "ok"
  BY DEF CommitSignalRun
<1>2. /\ DOMAIN db = Tables /\ clock \in Nat /\ clock + 1 \in Nat
      /\ db["signal_runs"] \in [Day -> SignalRunRow \cup {Absent}]
  BY KeysRows, WorkDbAssumption DEF TypeOK, IsImage, Tables
<1>3. /\ DOMAIN new = Tables
      /\ new["signal_runs"] = [db["signal_runs"] EXCEPT ![day] = row]
      /\ \A t \in Tables \ {"signal_runs"} : new[t] = db[t] /\ touched[t] = {}
      /\ touched["signal_runs"] = {day}
  BY <1>2 DEF RunUpsert, Tables
<1>4. row \in SignalRunRow
  BY <1>2 DEF SignalRunRow
<1> HIDE DEF row, new, touched
<1>5. Captures(new, touched)
  <2>1. ASSUME NEW t \in Tables
        PROVE  /\ new[t] \in [Keys[t] -> Rows[t] \cup {Absent}]
               /\ touched[t] \subseteq Keys[t]
               /\ \A k \in touched[t] : new[t][k] \in Rows[t]
               /\ \A k \in Keys[t] \ touched[t] : new[t][k] = db[t][k]
    <3>1. CASE t = "signal_runs"
      BY <3>1, <1>2, <1>3, <1>4, KeysRows
    <3>2. CASE t # "signal_runs"
      BY <3>2, <1>3 DEF TypeOK, IsImage
    <3> QED  BY <3>1, <3>2
  <2> QED  BY <1>3, <2>1 DEF Captures, IsImage
<1>6. /\ TypeOK' /\ (ReplicaFollows => ReplicaFollows')
      /\ \A t \in Tables : DOMAIN outbox'[clock'][t] = touched[t]
  BY <1>1, <1>5, CommitLemma DEF TypeOK
<1>7. db' = new /\ clock' = clock + 1
  BY <1>1 DEF Commit
<1>8. Quiet
  BY <1>3, <1>6, <1>7 DEF Quiet, Tables
<1> QED  BY <1>1, <1>3, <1>6, <1>7, <1>8 DEF row

\* commit_daily: the day's rows, its verdict and pair_state, nothing else.
LEMMA DailyStep ==
    ASSUME TypeOK, NEW day \in Day, NEW prior \in Day,
           NEW signals \in PartialFn(Pair, Facts), NEW memo \in Memo,
           CommitDaily(day, prior, signals, memo)
    PROVE  /\ TypeOK'
           /\ ReplicaFollows => ReplicaFollows'
           /\ Quiet
           /\ clock' = clock + 1
           /\ db'["orgs"] = db["orgs"] /\ db'["org_map_runs"] = db["org_map_runs"]
           /\ Synced(Pair \X Day, ContactRow, db["network_contact"], Pair \X {day},
                     DayRows(day, prior, signals))
           /\ db'["network_contact"] =
                 Sync(db["network_contact"], DayRows(day, prior, signals), Pair \X {day})
           /\ db'["signal_runs"] =
                 [db["signal_runs"] EXCEPT ![day] =
                    [status |-> "ok", prior |-> prior,
                     count |-> Cardinality(DOMAIN signals), finished |-> clock + 1]]
<1> DEFINE rows == DayRows(day, prior, signals)
           scope == Pair \X {day}
           contact == Sync(db["network_contact"], rows, scope)
           row == [status |-> "ok", prior |-> prior,
                   count |-> Cardinality(DOMAIN signals), finished |-> clock + 1]
           new == [db EXCEPT !["network_contact"] = contact,
                             !["signal_runs"] = RunUpsert(@, day, row)]
           touched == [t \in Tables |->
                         CASE t = "network_contact" ->
                                   Touched(db["network_contact"], rows, scope)
                           [] t = "signal_runs" -> {day}
                           [] OTHER             -> {}]
<1>1. Commit(new, touched) /\ pairState' = memo
  BY DEF CommitDaily
<1>2. /\ DOMAIN db = Tables /\ clock \in Nat /\ clock + 1 \in Nat
      /\ db["network_contact"] \in [Pair \X Day -> ContactRow \cup {Absent}]
      /\ db["signal_runs"] \in [Day -> SignalRunRow \cup {Absent}]
  <2>1. DOMAIN db = Tables /\ clock \in Nat /\ clock + 1 \in Nat
    BY WorkDbAssumption DEF TypeOK, IsImage
  <2>2. db["network_contact"] \in [Pair \X Day -> ContactRow \cup {Absent}]
    BY KeysRows DEF TypeOK, IsImage, Tables
  <2>3. db["signal_runs"] \in [Day -> SignalRunRow \cup {Absent}]
    BY KeysRows DEF TypeOK, IsImage, Tables
  <2> QED  BY <2>1, <2>2, <2>3
<1>3. /\ DOMAIN new = Tables
      /\ new["network_contact"] = contact
      /\ new["signal_runs"] = [db["signal_runs"] EXCEPT ![day] = row]
      /\ new["orgs"] = db["orgs"] /\ new["org_map_runs"] = db["org_map_runs"]
  BY <1>2 DEF RunUpsert, Tables
<1>4. /\ touched["network_contact"] = Touched(db["network_contact"], rows, scope)
      /\ touched["signal_runs"] = {day}
      /\ touched["orgs"] = {} /\ touched["org_map_runs"] = {}
  BY DEF Tables
<1>5. Synced(Pair \X Day, ContactRow, db["network_contact"], scope, rows)
  <2>1. /\ ContactRow = [body : Body, live : BOOLEAN] /\ Absent \notin ContactRow
    BY KeysRows DEF ContactRow, Tables
  <2>2. DOMAIN signals \subseteq Pair /\ \A p \in DOMAIN signals : signals[p] \in Facts
    BY PartialFnLemma
  <2>3. DOMAIN rows = (DOMAIN signals) \X {day}
    BY DEF DayRows
  <2>4. DOMAIN rows \subseteq scope
    BY <2>2, <2>3
  <2>5. ASSUME NEW k \in DOMAIN rows
        PROVE  rows[k] \in Body
    <3>1. k[1] \in DOMAIN signals
      BY <2>3
    <3>2. rows[k] = [prior |-> prior, facts |-> signals[k[1]]]
      BY <2>3 DEF DayRows
    <3> QED  BY <3>1, <3>2, <2>2 DEF Body
  <2>6. scope \subseteq Pair \X Day
    OBVIOUS
  <2> HIDE DEF rows, scope
  <2> QED  BY SyncLemma, <2>1, <1>2, <2>4, <2>5, <2>6, Zenon
<1>6. row \in SignalRunRow
  <2>1. DOMAIN signals \subseteq Pair
    BY PartialFnLemma
  <2>2. Cardinality(DOMAIN signals) \in Nat
    BY <2>1, WorkDbAssumption, FS_Subset, FS_CardinalityType
  <2> QED  BY <2>2, <1>2 DEF SignalRunRow, Status
<1>7. /\ contact \in [Pair \X Day -> ContactRow \cup {Absent}]
      /\ Touched(db["network_contact"], rows, scope)
            = {k \in Pair \X Day : contact[k] # db["network_contact"][k]}
      /\ \A k \in Touched(db["network_contact"], rows, scope) : contact[k] \in ContactRow
  BY <1>5 DEF Synced
<1> HIDE DEF contact, row, rows, scope, new, touched
<1>8. Captures(new, touched)
  <2>1. ASSUME NEW t \in Tables
        PROVE  /\ new[t] \in [Keys[t] -> Rows[t] \cup {Absent}]
               /\ touched[t] \subseteq Keys[t]
               /\ \A k \in touched[t] : new[t][k] \in Rows[t]
               /\ \A k \in Keys[t] \ touched[t] : new[t][k] = db[t][k]
    <3>1. CASE t = "network_contact"
      BY <3>1, <1>3, <1>4, <1>7, KeysRows
    <3>2. CASE t = "signal_runs"
      BY <3>2, <1>2, <1>3, <1>4, <1>6, KeysRows
    <3>3. CASE t = "orgs" \/ t = "org_map_runs"
      BY <3>3, <1>3, <1>4 DEF TypeOK, IsImage
    <3> QED  BY <3>1, <3>2, <3>3 DEF Tables
  <2> QED  BY <1>3, <2>1 DEF Captures, IsImage
<1>9. /\ TypeOK' /\ (ReplicaFollows => ReplicaFollows')
      /\ \A t \in Tables : DOMAIN outbox'[clock'][t] = touched[t]
  BY <1>1, <1>8, CommitLemma DEF TypeOK
<1>10. db' = new /\ clock' = clock + 1
  BY <1>1 DEF Commit
<1>11. Quiet
  BY <1>3, <1>4, <1>7, <1>9, <1>10, KeysRows DEF Quiet, Tables
<1> QED  BY <1>3, <1>5, <1>9, <1>10, <1>11 DEF row, rows, scope, contact

\* The collector: the tables do not move and the replica catches up by one.
LEMMA DrainStep ==
    ASSUME TypeOK, Drain
    PROVE  TypeOK' /\ (ReplicaFollows => ReplicaFollows') /\ db' = db /\ clock' = clock
<1> DEFINE b == outbox[drained + 1]
<1>1. /\ clock \in Nat /\ drained \in Nat /\ drained < clock /\ MaxCommits \in Nat
      /\ clock' = clock /\ drained' = drained + 1 /\ db' = db /\ pairState' = pairState
      /\ DOMAIN outbox = drained + 1 .. clock
      /\ drained + 1 \in DOMAIN outbox
  BY WorkDbAssumption DEF TypeOK, Drain
<1>2. /\ DOMAIN outbox' = drained + 2 .. clock
      /\ \A i \in drained + 2 .. clock : outbox'[i] = outbox[i] /\ i \in DOMAIN outbox
  BY <1>1 DEF Drain
<1>3. IsBatch(b)
  BY <1>1 DEF TypeOK
<1>4. \A t \in Tables :
         /\ replica'[t] = Override(replica[t], b[t])
         /\ DOMAIN b[t] \subseteq Keys[t]
         /\ \A k \in DOMAIN b[t] : b[t][k] \in Rows[t]
         /\ replica[t] \in [Keys[t] -> Rows[t] \cup {Absent}]
  BY <1>3 DEF Drain, IsBatch, Captured, TypeOK, IsImage
<1> HIDE DEF b
<1>5. \A t \in Tables :
         /\ replica'[t] \in [Keys[t] -> Rows[t] \cup {Absent}]
         /\ \A k \in Keys[t] :
              replica'[t][k] = IF k \in DOMAIN b[t] THEN b[t][k] ELSE replica[t][k]
  <2> SUFFICES ASSUME NEW t \in Tables
               PROVE  /\ replica'[t] \in [Keys[t] -> Rows[t] \cup {Absent}]
                      /\ \A k \in Keys[t] :
                           replica'[t][k] = IF k \in DOMAIN b[t] THEN b[t][k]
                                            ELSE replica[t][k]
    OBVIOUS
  <2>1. replica'[t] = [k \in Keys[t] |-> IF k \in DOMAIN b[t] THEN b[t][k]
                                        ELSE replica[t][k]]
    BY <1>4 DEF Override
  <2>2. \A k \in Keys[t] :
           (IF k \in DOMAIN b[t] THEN b[t][k] ELSE replica[t][k]) \in Rows[t] \cup {Absent}
    BY <1>4
  <2> QED  BY <2>1, <2>2
<1>6. IsImage(replica')
  BY <1>5 DEF IsImage, Drain
<1>7. TypeOK'
  <2>1. \A i \in DOMAIN outbox' : IsBatch(outbox'[i])
    BY <1>2 DEF TypeOK
  <2>2. clock' \in 0..MaxCommits /\ drained' \in 0..clock' /\ DOMAIN outbox' = drained' + 1 .. clock'
    BY <1>1, <1>2 DEF TypeOK
  <2> QED  BY <1>1, <1>6, <2>1, <2>2 DEF TypeOK
<1>8. ASSUME ReplicaFollows
      PROVE  ReplicaFollows'
  <2> SUFFICES ASSUME NEW t \in Tables, NEW k \in Keys[t]
               PROVE  \/ /\ \A i \in DOMAIN outbox' : k \notin DOMAIN outbox'[i][t]
                         /\ replica'[t][k] = db'[t][k]
                      \/ \E i \in DOMAIN outbox' :
                            /\ k \in DOMAIN outbox'[i][t]
                            /\ outbox'[i][t][k] = db'[t][k]
                            /\ \A j \in DOMAIN outbox' : j > i => k \notin DOMAIN outbox'[j][t]
    BY DEF ReplicaFollows, Captured
  <2>1. CASE /\ \A i \in DOMAIN outbox : k \notin DOMAIN outbox[i][t]
             /\ replica[t][k] = db[t][k]
    BY <2>1, <1>1, <1>2, <1>5 DEF b
  <2>2. ASSUME NEW i \in DOMAIN outbox,
               k \in DOMAIN outbox[i][t],
               outbox[i][t][k] = db[t][k],
               \A j \in DOMAIN outbox : j > i => k \notin DOMAIN outbox[j][t]
        PROVE  \/ /\ \A n \in DOMAIN outbox' : k \notin DOMAIN outbox'[n][t]
                  /\ replica'[t][k] = db'[t][k]
               \/ \E n \in DOMAIN outbox' :
                     /\ k \in DOMAIN outbox'[n][t]
                     /\ outbox'[n][t][k] = db'[t][k]
                     /\ \A j \in DOMAIN outbox' : j > n => k \notin DOMAIN outbox'[j][t]
    <3>1. CASE i = drained + 1
      <4>1. \A j \in DOMAIN outbox' : j \in DOMAIN outbox /\ j > i /\ outbox'[j] = outbox[j]
        BY <3>1, <1>1, <1>2
      <4>2. replica'[t][k] = db'[t][k]
        BY <3>1, <2>2, <1>1, <1>5 DEF b
      <4> QED  BY <4>1, <4>2, <2>2
    <3>2. CASE i # drained + 1
      <4>1. i \in DOMAIN outbox' /\ outbox'[i] = outbox[i]
        BY <3>2, <1>1, <1>2
      <4> QED  BY <4>1, <2>2, <1>1, <1>2
    <3> QED  BY <3>1, <3>2
  <2>3. \/ /\ \A i \in DOMAIN outbox : k \notin DOMAIN outbox[i][t]
           /\ replica[t][k] = db[t][k]
        \/ \E i \in DOMAIN outbox :
              /\ k \in DOMAIN outbox[i][t]
              /\ outbox[i][t][k] = db[t][k]
              /\ \A j \in DOMAIN outbox : j > i => k \notin DOMAIN outbox[j][t]
    BY <1>8 DEF ReplicaFollows, Captured
  <2> QED  BY <2>1, <2>2, <2>3
<1> QED  BY <1>1, <1>7, <1>8
-----------------------------------------------------------------------------
(* The theorems. *)

\* The initial state and every step keep the tables well typed and captured.
LEMMA TypeInvariant == Spec => [](TypeOK /\ ReplicaFollows)
<1> DEFINE Inv == TypeOK /\ ReplicaFollows
<1>1. Init => Inv
  <2> SUFFICES ASSUME Init PROVE Inv
    OBVIOUS
  <2>1. \A t \in Tables : EmptyTable(Keys[t]) \in [Keys[t] -> Rows[t] \cup {Absent}]
    BY DEF EmptyTable
  <2>2. IsImage(db) /\ IsImage(replica)
    BY <2>1 DEF Init, IsImage
  <2>3. DOMAIN outbox = {} /\ drained = 0 /\ clock = 0 /\ drained + 1 .. clock = {}
    BY DEF Init
  <2>4. TypeOK
    BY <2>2, <2>3, WorkDbAssumption DEF Init, TypeOK
  <2>5. ReplicaFollows
    BY <2>3 DEF Init, ReplicaFollows
  <2> QED  BY <2>4, <2>5
<1>2. Inv /\ [Next]_vars => Inv'
  <2> SUFFICES ASSUME Inv, [Next]_vars PROVE Inv'
    OBVIOUS
  <2>1. ASSUME NEW day \in Day, NEW crawl \in PartialFn(Org, Rec), CommitOrgMap(day, crawl)
        PROVE  Inv'
    BY <2>1, OrgMapStep
  <2>2. ASSUME NEW day \in Day, NEW status \in Status, CommitSignalRun(day, status)
        PROVE  Inv'
    BY <2>2, SignalRunStep
  <2>3. ASSUME NEW day \in Day, NEW prior \in Day, NEW signals \in PartialFn(Pair, Facts),
               NEW memo \in Memo, CommitDaily(day, prior, signals, memo)
        PROVE  Inv'
    BY <2>3, DailyStep
  <2>4. CASE Drain
    BY <2>4, DrainStep
  <2>5. CASE UNCHANGED vars
    BY <2>5 DEF vars, TypeOK, ReplicaFollows, IsImage, IsBatch
  <2> QED  BY <2>1, <2>2, <2>3, <2>4, <2>5 DEF Next
<1> QED  BY <1>1, <1>2, PTL DEF Spec

\* Type correctness of the database, the queue and the replica.
THEOREM TypeCorrect == Spec => []TypeOK
<1>1. TypeOK /\ ReplicaFollows => TypeOK
  OBVIOUS
<1> QED  BY <1>1, TypeInvariant, PTL

\* No committed change of a captured table is ever lost on its way to the replica.
THEOREM CaptureFaithful == Spec => []ReplicaFollows
<1>1. TypeOK /\ ReplicaFollows => ReplicaFollows
  OBVIOUS
<1> QED  BY <1>1, TypeInvariant, PTL

\* In particular a drained queue means equal tables.
THEOREM DrainedMeansEqual ==
    Spec => [](drained = clock => \A t \in Tables : \A k \in Keys[t] : replica[t][k] = db[t][k])
<1>1. ASSUME TypeOK, ReplicaFollows, drained = clock
      PROVE  \A t \in Tables : \A k \in Keys[t] : replica[t][k] = db[t][k]
  <2>1. DOMAIN outbox = {}
    BY <1>1, WorkDbAssumption DEF TypeOK
  <2> QED  BY <1>1, <2>1 DEF ReplicaFollows
<1> QED  BY <1>1, TypeInvariant, PTL

\* A transaction emits an event for a signal or an org exactly when it changes it.
THEOREM ChangeAware == Spec => NoSpuriousEvent
<1> DEFINE Silent == clock' # clock =>
              \A t \in {"network_contact", "orgs"} \cap Captured :
                 DOMAIN outbox'[clock'][t] = {k \in Keys[t] : db'[t][k] # db[t][k]}
<1>1. TypeOK /\ [Next]_vars => [Silent]_vars
  <2> SUFFICES ASSUME TypeOK, [Next]_vars PROVE [Silent]_vars
    OBVIOUS
  <2>1. ASSUME NEW day \in Day, NEW crawl \in PartialFn(Org, Rec), CommitOrgMap(day, crawl)
        PROVE  Silent
    BY <2>1, OrgMapStep DEF Quiet
  <2>2. ASSUME NEW day \in Day, NEW status \in Status, CommitSignalRun(day, status)
        PROVE  Silent
    BY <2>2, SignalRunStep DEF Quiet
  <2>3. ASSUME NEW day \in Day, NEW prior \in Day, NEW signals \in PartialFn(Pair, Facts),
               NEW memo \in Memo, CommitDaily(day, prior, signals, memo)
        PROVE  Silent
    BY <2>3, DailyStep DEF Quiet
  <2>4. CASE Drain
    BY <2>4, DrainStep
  <2>5. CASE UNCHANGED vars
    BY <2>5
  <2> QED  BY <2>1, <2>2, <2>3, <2>4, <2>5 DEF Next
<1>2. TypeOK /\ ReplicaFollows => TypeOK
  OBVIOUS
<1> QED  BY <1>1, <1>2, TypeInvariant, PTL DEF Spec, NoSpuriousEvent

LEMMA SameSignals ==
    ASSUME db'["network_contact"] = db["network_contact"]
    PROVE  Signals' = Signals
BY DEF Signals, LiveKeys

\* After commit_daily the day's live signals are the ones it was given, and the
\* other days' are untouched.
LEMMA DailySignals ==
    ASSUME TypeOK, NEW day \in Day, NEW prior \in Day,
           NEW signals \in PartialFn(Pair, Facts), NEW memo \in Memo,
           CommitDaily(day, prior, signals, memo)
    PROVE  /\ DOMAIN Signals' = Day
           /\ Signals'[day] = [p \in DOMAIN signals |-> [prior |-> prior, facts |-> signals[p]]]
           /\ \A d \in Day \ {day} : Signals'[d] = Signals[d]
<1> DEFINE contact == db["network_contact"]
           rows == DayRows(day, prior, signals)
           scope == Pair \X {day}
           after == Sync(contact, rows, scope)
<1>1. /\ db'["network_contact"] = after
      /\ Synced(Pair \X Day, ContactRow, contact, scope, rows)
  BY DailyStep
<1>2. contact \in [Pair \X Day -> ContactRow \cup {Absent}]
  BY KeysRows DEF TypeOK, IsImage, Tables
<1>3. /\ DOMAIN rows = (DOMAIN signals) \X {day} /\ DOMAIN signals \subseteq Pair
      /\ \A p \in DOMAIN signals : rows[<<p, day>>] = [prior |-> prior, facts |-> signals[p]]
  BY PartialFnLemma DEF DayRows
<1> HIDE DEF contact, rows, scope, after
<1>4. /\ DOMAIN after = Pair \X Day /\ DOMAIN contact = Pair \X Day
      /\ \A k \in (Pair \X Day) \ scope : after[k] = contact[k]
      /\ \A k \in DOMAIN rows : after[k] = [body |-> rows[k], live |-> TRUE]
      /\ \A k \in scope \ DOMAIN rows : after[k] = Absent \/ after[k].live = FALSE
      /\ \A k \in DOMAIN rows : after[k] \in ContactRow \cup {Absent}
  <2>1. after \in [Pair \X Day -> ContactRow \cup {Absent}]
    BY <1>1 DEF Synced, after
  <2>2. DOMAIN rows \subseteq Pair \X Day
    BY <1>3
  <2> QED  BY <1>1, <1>2, <2>1, <2>2 DEF Synced, after
<1>5. Absent \notin ContactRow
  BY KeysRows DEF Tables
<1>6. ASSUME NEW p \in Pair
      PROVE  /\ <<p, day>> \in LiveKeys(after) <=> p \in DOMAIN signals
             /\ p \in DOMAIN signals =>
                   after[<<p, day>>].body = [prior |-> prior, facts |-> signals[p]]
  <2>1. <<p, day>> \in scope /\ <<p, day>> \in Pair \X Day
    BY DEF scope
  <2>2. CASE p \in DOMAIN signals
    <3>1. <<p, day>> \in DOMAIN rows
      BY <1>3, <2>2
    <3>2. after[<<p, day>>] = [body |-> rows[<<p, day>>], live |-> TRUE]
      BY <1>4, <3>1
    <3>3. after[<<p, day>>] # Absent
      <4>1. [body |-> rows[<<p, day>>], live |-> TRUE] \in ContactRow
        <5>1. rows[<<p, day>>] \in Body
          <6>1. signals[p] \in Facts
            BY <2>2, PartialFnLemma
          <6>2. [prior |-> prior, facts |-> signals[p]] \in Body
            BY <6>1 DEF Body
          <6> QED  BY <1>3, <2>2, <6>2
        <5> QED  BY <5>1 DEF ContactRow
      <4> QED  BY <3>2, <4>1, <1>5
    <3>4. after[<<p, day>>].live /\ after[<<p, day>>].body = rows[<<p, day>>]
      BY <3>2
    <3> QED  BY <2>1, <2>2, <1>3, <1>4, <3>3, <3>4 DEF LiveKeys
  <2>3. CASE p \notin DOMAIN signals
    <3>1. <<p, day>> \in scope \ DOMAIN rows
      BY <1>3, <2>1, <2>3
    <3>2. after[<<p, day>>] = Absent \/ after[<<p, day>>].live = FALSE
      BY <1>4, <3>1
    <3> QED  BY <2>3, <3>2 DEF LiveKeys
  <2> QED  BY <2>2, <2>3
<1>7. ASSUME NEW d \in Day \ {day}, NEW p \in Pair
      PROVE  /\ after[<<p, d>>] = contact[<<p, d>>]
             /\ <<p, d>> \in LiveKeys(after) <=> <<p, d>> \in LiveKeys(contact)
  <2>1. <<p, d>> \in (Pair \X Day) \ scope
    BY DEF scope
  <2>2. after[<<p, d>>] = contact[<<p, d>>]
    BY <1>4, <2>1
  <2> QED  BY <1>4, <2>1, <2>2 DEF LiveKeys
<1>8. Signals' = [d \in Day |-> [p \in {q \in Pair : <<q, d>> \in LiveKeys(after)} |->
                                    after[<<p, d>>].body]]
  BY <1>1 DEF Signals, LiveKeys
<1>9. Signals = [d \in Day |-> [p \in {q \in Pair : <<q, d>> \in LiveKeys(contact)} |->
                                    contact[<<p, d>>].body]]
  BY DEF Signals, contact
<1>10. Signals'[day] = [p \in DOMAIN signals |-> [prior |-> prior, facts |-> signals[p]]]
  <2>1. {q \in Pair : <<q, day>> \in LiveKeys(after)} = DOMAIN signals
    BY <1>3, <1>6
  <2>2. Signals'[day] = [p \in DOMAIN signals |-> after[<<p, day>>].body]
    BY <1>8, <2>1
  <2>3. \A p \in DOMAIN signals :
           after[<<p, day>>].body = [prior |-> prior, facts |-> signals[p]]
    BY <1>3, <1>6
  <2> QED  BY <2>2, <2>3
<1>11. ASSUME NEW d \in Day \ {day}
       PROVE  Signals'[d] = Signals[d]
  <2>1. {q \in Pair : <<q, d>> \in LiveKeys(after)} = {q \in Pair : <<q, d>> \in LiveKeys(contact)}
    BY <1>7
  <2> QED  BY <1>7, <1>8, <1>9, <2>1
<1> QED  BY <1>8, <1>10, <1>11

\* An ok verdict counts exactly the day's live signals, all of one prior.
THEOREM OkRowCorrect == Spec => []OkRowDescribesLive
<1>1. Init => OkRowDescribesLive
  <2> SUFFICES ASSUME Init PROVE OkRowDescribesLive
    OBVIOUS
  <2>1. \A d \in Day : db["signal_runs"][d] = Absent
    BY KeysRows DEF Init, Tables, EmptyTable
  <2> QED  BY <2>1 DEF OkRowDescribesLive
<1>2. TypeOK /\ OkRowDescribesLive /\ [Next]_vars => OkRowDescribesLive'
  <2> SUFFICES ASSUME TypeOK, OkRowDescribesLive, [Next]_vars PROVE OkRowDescribesLive'
    OBVIOUS
  <2>1. ASSUME NEW day \in Day, NEW crawl \in PartialFn(Org, Rec), CommitOrgMap(day, crawl)
        PROVE  OkRowDescribesLive'
    <3>1. db'["signal_runs"] = db["signal_runs"] /\ Signals' = Signals
      BY <2>1, OrgMapStep, SameSignals
    <3> QED  BY <3>1 DEF OkRowDescribesLive
  <2>2. ASSUME NEW day \in Day, NEW status \in Status, CommitSignalRun(day, status)
        PROVE  OkRowDescribesLive'
    <3>1. /\ db'["network_contact"] = db["network_contact"]
          /\ db'["signal_runs"][day].status # "ok"
          /\ \A d \in Day \ {day} : db'["signal_runs"][d] = db["signal_runs"][d]
      <4>1. db["signal_runs"] \in [Day -> SignalRunRow \cup {Absent}]
        BY KeysRows DEF TypeOK, IsImage, Tables
      <4>2. db'["signal_runs"] = [db["signal_runs"] EXCEPT ![day] =
                [status |-> status, prior |-> Absent, count |-> 0, finished |-> clock + 1]]
        BY <2>2, SignalRunStep
      <4>3. status # "ok" /\ db'["network_contact"] = db["network_contact"]
        BY <2>2, SignalRunStep DEF Tables
      <4> QED  BY <4>1, <4>2, <4>3
    <3>2. Signals' = Signals
      BY <3>1, SameSignals
    <3> QED  BY <3>1, <3>2 DEF OkRowDescribesLive
  <2>3. ASSUME NEW day \in Day, NEW prior \in Day, NEW signals \in PartialFn(Pair, Facts),
               NEW memo \in Memo, CommitDaily(day, prior, signals, memo)
        PROVE  OkRowDescribesLive'
    <3>1. db["signal_runs"] \in [Day -> SignalRunRow \cup {Absent}]
      BY KeysRows DEF TypeOK, IsImage, Tables
    <3>2. /\ db'["signal_runs"][day].count = Cardinality(DOMAIN signals)
          /\ db'["signal_runs"][day].prior = prior
          /\ \A d \in Day \ {day} : db'["signal_runs"][d] = db["signal_runs"][d]
      <4>1. db'["signal_runs"] = [db["signal_runs"] EXCEPT ![day] =
                [status |-> "ok", prior |-> prior, count |-> Cardinality(DOMAIN signals),
                 finished |-> clock + 1]]
        BY <2>3, DailyStep
      <4> QED  BY <3>1, <4>1
    <3>3. /\ Signals'[day] = [p \in DOMAIN signals |-> [prior |-> prior, facts |-> signals[p]]]
          /\ \A d \in Day \ {day} : Signals'[d] = Signals[d]
      BY <2>3, DailySignals
    <3>4. /\ DOMAIN Signals'[day] = DOMAIN signals
          /\ \A p \in DOMAIN signals : Signals'[day][p].prior = prior
      BY <3>3
    <3> QED  BY <3>2, <3>3, <3>4 DEF OkRowDescribesLive
  <2>4. CASE Drain
    BY <2>4, DrainStep, SameSignals DEF OkRowDescribesLive
  <2>5. CASE UNCHANGED vars
    BY <2>5, SameSignals DEF vars, OkRowDescribesLive
  <2> QED  BY <2>1, <2>2, <2>3, <2>4, <2>5 DEF Next
<1> QED  BY <1>1, <1>2, TypeCorrect, PTL DEF Spec

\* After commit_org_map the spine is exactly the crawl.
LEMMA CrawlSpine ==
    ASSUME TypeOK, NEW day \in Day, NEW crawl \in PartialFn(Org, Rec),
           CommitOrgMap(day, crawl)
    PROVE  /\ LiveKeys(db'["orgs"]) = DOMAIN crawl
           /\ LoadLiveOrgMap' = crawl
           /\ DOMAIN crawl # {}
<1> DEFINE after == Sync(db["orgs"], crawl, Org)
<1>1. /\ db'["orgs"] = after
      /\ Synced(Org, OrgRow, db["orgs"], Org, crawl)
  BY OrgMapStep
<1>2. DOMAIN crawl \subseteq Org /\ \A o \in DOMAIN crawl : crawl[o] \in Rec
  BY PartialFnLemma
<1>3. Absent \notin OrgRow
  BY KeysRows DEF Tables
<1> HIDE DEF after
<1>4. /\ DOMAIN after = Org
      /\ \A o \in DOMAIN crawl : after[o] = [body |-> crawl[o], live |-> TRUE]
      /\ \A o \in Org \ DOMAIN crawl : after[o] = Absent \/ after[o].live = FALSE
  BY <1>1 DEF Synced, after
<1>5. ASSUME NEW o \in DOMAIN crawl
      PROVE  o \in LiveKeys(after) /\ after[o].body = crawl[o]
  <2>1. [body |-> crawl[o], live |-> TRUE] \in OrgRow
    BY <1>2 DEF OrgRow
  <2>2. after[o] # Absent
    BY <1>3, <1>4, <2>1
  <2>3. after[o] = [body |-> crawl[o], live |-> TRUE]
    BY <1>4
  <2>4. after[o].live /\ after[o].body = crawl[o]
    BY <2>3
  <2> QED  BY <1>2, <1>4, <2>2, <2>4 DEF LiveKeys
<1>6. \A o \in Org \ DOMAIN crawl : o \notin LiveKeys(after)
  BY <1>4 DEF LiveKeys
<1>7. LiveKeys(after) = DOMAIN crawl
  <2>1. LiveKeys(after) \subseteq Org
    BY <1>4 DEF LiveKeys
  <2> QED  BY <1>5, <1>6, <2>1
<1>8. Live(after) = crawl
  <2>1. Live(after) = [o \in DOMAIN crawl |-> after[o].body]
    BY <1>7 DEF Live
  <2>2. Live(after) = [o \in DOMAIN crawl |-> crawl[o]]
    BY <1>5, <2>1
  <2>3. crawl = [o \in DOMAIN crawl |-> crawl[o]]
    BY DEF PartialFn
  <2> QED  BY <2>2, <2>3
<1>9. DOMAIN crawl # {}
  BY DEF CommitOrgMap
<1>10. LoadLiveOrgMap' = Live(after)
  BY <1>1 DEF LoadLiveOrgMap, Live, LiveKeys
<1> QED  BY <1>1, <1>7, <1>8, <1>9, <1>10

LEMMA SameSpine ==
    ASSUME db'["orgs"] = db["orgs"]
    PROVE  LoadLiveOrgMap' = LoadLiveOrgMap
BY DEF LoadLiveOrgMap, Live, LiveKeys

LEMMA SameLatest ==
    ASSUME db'["org_map_runs"] = db["org_map_runs"]
    PROVE  LatestOrgMapRun' = LatestOrgMapRun
BY DEF LatestOrgMapRun

\* Only the commit that creates a crawl row dates it: no row is from the future.
NoFutureCrawl ==
    \A d \in Day : db["org_map_runs"][d] # Absent => db["org_map_runs"][d].finished <= clock

\* The crawl row that finished last counts exactly the spine a daily run loads.
THEOREM FreshRowCorrect == Spec => []FreshRowDescribesMap
<1> DEFINE Inv == NoFutureCrawl /\ FreshRowDescribesMap
<1>1. Init => Inv
  <2> SUFFICES ASSUME Init PROVE Inv
    OBVIOUS
  <2>1. \A d \in Day : db["org_map_runs"][d] = Absent
    BY KeysRows DEF Init, Tables, EmptyTable
  <2> QED  BY <2>1 DEF NoFutureCrawl, FreshRowDescribesMap
<1>2. TypeOK /\ Inv /\ [Next]_vars => Inv'
  <2> SUFFICES ASSUME TypeOK, Inv, [Next]_vars PROVE Inv'
    OBVIOUS
  <2>1. ASSUME NEW day \in Day, NEW crawl \in PartialFn(Org, Rec), CommitOrgMap(day, crawl)
        PROVE  Inv'
    <3> DEFINE runs == db["org_map_runs"]
               after == db'["org_map_runs"]
               row == [finished |-> clock + 1, count |-> Cardinality(LiveKeys(db'["orgs"]))]
    <3>1. /\ after = [runs EXCEPT ![day] = row]
          /\ clock' = clock + 1
      BY <2>1, OrgMapStep
    <3>2. /\ runs \in [Day -> OrgMapRunRow \cup {Absent}]
          /\ clock \in Nat
      BY KeysRows, WorkDbAssumption DEF TypeOK, IsImage, Tables
    <3>3. /\ after[day] = row /\ after[day].finished = clock + 1
          /\ \A e \in Day \ {day} : after[e] = runs[e]
      BY <3>1, <3>2
    <3>4. after[day] # Absent
      <4>1. db'["org_map_runs"] \in [Day -> OrgMapRunRow \cup {Absent}]
        BY <2>1, OrgMapStep, KeysRows DEF TypeOK, IsImage, Tables
      <4>2. LiveKeys(db'["orgs"]) = DOMAIN crawl /\ DOMAIN crawl \subseteq Org
        BY <2>1, CrawlSpine, PartialFnLemma
      <4>3. Cardinality(LiveKeys(db'["orgs"])) \in Nat
        BY <4>2, WorkDbAssumption, FS_Subset, FS_CardinalityType
      <4>4. row \in OrgMapRunRow
        BY <3>2, <4>3 DEF OrgMapRunRow
      <4>5. Absent \notin OrgMapRunRow
        BY KeysRows DEF Tables
      <4> QED  BY <3>3, <4>4, <4>5
    <3>5. \A e \in Day \ {day} : after[e] # Absent =>
              after[e].finished <= clock /\ after[e].finished \in Nat
      BY <3>2, <3>3 DEF NoFutureCrawl, OrgMapRunRow
    <3> HIDE DEF runs, after, row
    <3>6. NoFutureCrawl'
      BY <3>1, <3>2, <3>3, <3>5 DEF NoFutureCrawl, after
    <3>7. LatestOrgMapRun' = day
      <4> DEFINE Last(d) == /\ after[d] # Absent
                            /\ \A e \in Day : after[e] # Absent =>
                                  after[e].finished <= after[d].finished
      <4>1. Last(day)
        BY <3>2, <3>3, <3>4, <3>5
      <4>2. ASSUME NEW d \in Day, Last(d)
            PROVE  d = day
        <5>1. after[day].finished <= after[d].finished
          BY <4>2, <3>4
        <5> QED  BY <5>1, <4>2, <3>2, <3>3, <3>5
      <4>3. LatestOrgMapRun' = CHOOSE d \in Day : Last(d)
        BY DEF LatestOrgMapRun, after
      <4> HIDE DEF Last
      <4> QED  BY <4>1, <4>2, <4>3
    <3>8. /\ LoadLiveOrgMap' = crawl /\ LiveKeys(db'["orgs"]) = DOMAIN crawl
          /\ DOMAIN crawl # {}
      BY <2>1, CrawlSpine
    <3>9. after[day].count = Cardinality(DOMAIN crawl)
      BY <3>3, <3>8 DEF row
    <3>10. FreshRowDescribesMap'
      BY <3>7, <3>8, <3>9 DEF FreshRowDescribesMap, after
    <3> QED  BY <3>6, <3>10
  <2>2. ASSUME db'["orgs"] = db["orgs"], db'["org_map_runs"] = db["org_map_runs"],
               clock' = clock \/ clock' = clock + 1
        PROVE  Inv'
    <3>1. LoadLiveOrgMap' = LoadLiveOrgMap /\ LatestOrgMapRun' = LatestOrgMapRun
      BY <2>2, SameSpine, SameLatest
    <3>2. FreshRowDescribesMap'
      BY <2>2, <3>1 DEF FreshRowDescribesMap
    <3>3. \A d \in Day : db["org_map_runs"][d] # Absent =>
              db["org_map_runs"][d].finished \in Nat
      <4>1. db["org_map_runs"] \in [Day -> OrgMapRunRow \cup {Absent}]
        BY KeysRows DEF TypeOK, IsImage, Tables
      <4> QED  BY <4>1 DEF OrgMapRunRow
    <3>4. clock \in Nat
      BY WorkDbAssumption DEF TypeOK
    <3>5. NoFutureCrawl'
      BY <2>2, <3>3, <3>4 DEF NoFutureCrawl
    <3> QED  BY <3>2, <3>5
  <2>3. ASSUME NEW day \in Day, NEW status \in Status, CommitSignalRun(day, status)
        PROVE  Inv'
    BY <2>2, <2>3, SignalRunStep DEF Tables
  <2>4. ASSUME NEW day \in Day, NEW prior \in Day, NEW signals \in PartialFn(Pair, Facts),
               NEW memo \in Memo, CommitDaily(day, prior, signals, memo)
        PROVE  Inv'
    BY <2>2, <2>4, DailyStep
  <2>5. CASE Drain
    BY <2>2, <2>5, DrainStep
  <2>6. CASE UNCHANGED vars
    BY <2>2, <2>6 DEF vars
  <2> QED  BY <2>1, <2>3, <2>4, <2>5, <2>6 DEF Next
<1> QED  BY <1>1, <1>2, TypeCorrect, PTL DEF Spec

\* The work database implements the promise its readers rely on: a published day,
\* a verdict or a spine is replaced as a whole and only by the run that means to.
THEOREM Implements == Spec => ImplementsBoard
<1>1. Init => Board!Init
  <2> SUFFICES ASSUME Init PROVE Board!Init
    OBVIOUS
  <2>1. /\ \A k \in Pair \X Day : db["network_contact"][k] = Absent
        /\ \A o \in Org : db["orgs"][o] = Absent
        /\ \A d \in Day : db["signal_runs"][d] = Absent
        /\ DOMAIN db["network_contact"] = Pair \X Day
        /\ DOMAIN db["orgs"] = Org
    BY KeysRows DEF Init, Tables, EmptyTable
  <2>2. LiveKeys(db["network_contact"]) = {} /\ LiveKeys(db["orgs"]) = {}
    BY <2>1 DEF LiveKeys
  <2>3. Signals = [d \in Day |-> Board!Nothing]
    BY <2>2 DEF Signals, Board!Nothing
  <2>4. LoadLiveOrgMap = Board!Nothing
    BY <2>2 DEF LoadLiveOrgMap, Live, Board!Nothing
  <2>5. Verdict = [d \in Day |-> Absent]
    BY <2>1 DEF Verdict
  <2> QED  BY <2>3, <2>4, <2>5 DEF Board!Init
<1>2. TypeOK /\ [Next]_vars => [Board!Next]_(Board!boardVars)
  <2> SUFFICES ASSUME TypeOK, [Next]_vars
               PROVE  Board!Next \/ UNCHANGED <<Signals, LoadLiveOrgMap, Verdict>>
    BY DEF Board!boardVars
  <2>0. db["signal_runs"] \in [Day -> SignalRunRow \cup {Absent}]
    BY KeysRows DEF TypeOK, IsImage, Tables
  <2>1. ASSUME NEW day \in Day, NEW crawl \in PartialFn(Org, Rec), CommitOrgMap(day, crawl)
        PROVE  Board!Next
    <3>1. Signals' = Signals
      BY <2>1, OrgMapStep, SameSignals
    <3>2. Verdict' = Verdict
      BY <2>1, OrgMapStep DEF Verdict
    <3>3. Board!Refresh(LoadLiveOrgMap')
      BY <2>1, <3>1, <3>2, CrawlSpine DEF Board!Refresh
    <3> QED  BY <3>3 DEF Board!Next
  <2>2. ASSUME NEW day \in Day, NEW row \in SignalRunRow,
               db'["signal_runs"] = [db["signal_runs"] EXCEPT ![day] = row]
        PROVE  /\ Verdict' = [Verdict EXCEPT ![day] =
                    [status |-> row.status, prior |-> row.prior, count |-> row.count]]
               /\ Verdict'[day] = [status |-> row.status, prior |-> row.prior,
                                   count |-> row.count]
    <3>1. row # Absent
      BY <2>2, KeysRows DEF Tables
    <3>2. /\ db'["signal_runs"][day] = row
          /\ \A d \in Day \ {day} : db'["signal_runs"][d] = db["signal_runs"][d]
      BY <2>0, <2>2
    <3> QED  BY <3>1, <3>2 DEF Verdict
  <2>3. ASSUME NEW day \in Day, NEW status \in Status, CommitSignalRun(day, status)
        PROVE  Board!Next
    <3> DEFINE row == [status |-> status, prior |-> Absent, count |-> 0,
                       finished |-> clock + 1]
    <3>1. /\ db'["signal_runs"] = [db["signal_runs"] EXCEPT ![day] = row]
          /\ status \in {"snapshot_only", "error"}
          /\ db'["network_contact"] = db["network_contact"] /\ db'["orgs"] = db["orgs"]
      BY <2>3, SignalRunStep DEF Tables, Status
    <3>2. row \in SignalRunRow
      BY WorkDbAssumption DEF TypeOK, SignalRunRow
    <3>3. Signals' = Signals /\ LoadLiveOrgMap' = LoadLiveOrgMap
      BY <3>1, SameSignals, SameSpine
    <3>4. Verdict' = [Verdict EXCEPT ![day] =
              [status |-> row.status, prior |-> row.prior, count |-> row.count]]
      BY <2>2, <3>1, <3>2
    <3>5. Board!Mark(day, status)
      BY <3>3, <3>4 DEF Board!Mark
    <3> QED  BY <3>1, <3>5 DEF Board!Next
  <2>4. ASSUME NEW day \in Day, NEW prior \in Day, NEW signals \in PartialFn(Pair, Facts),
               NEW memo \in Memo, CommitDaily(day, prior, signals, memo)
        PROVE  Board!Next
    <3>0. db'["signal_runs"] = [db["signal_runs"] EXCEPT ![day] =
              [status |-> "ok", prior |-> prior, count |-> Cardinality(DOMAIN signals),
               finished |-> clock + 1]]
      BY <2>4, DailyStep
    <3> DEFINE row == [status |-> "ok", prior |-> prior,
                       count |-> Cardinality(DOMAIN signals), finished |-> clock + 1]
    <3>1. db'["signal_runs"] = [db["signal_runs"] EXCEPT ![day] = row]
      BY <3>0
    <3>2. row \in SignalRunRow
      <4>1. DOMAIN signals \subseteq Pair
        BY PartialFnLemma
      <4>2. Cardinality(DOMAIN signals) \in Nat
        BY <4>1, WorkDbAssumption, FS_Subset, FS_CardinalityType
      <4> QED  BY <4>2, WorkDbAssumption DEF TypeOK, SignalRunRow, Status
    <3>3. LoadLiveOrgMap' = LoadLiveOrgMap
      <4>1. db'["orgs"] = db["orgs"]
        BY <2>4, DailyStep
      <4> QED  BY <4>1, SameSpine
    <3>4. /\ Verdict' = [Verdict EXCEPT ![day] =
                [status |-> row.status, prior |-> row.prior, count |-> row.count]]
          /\ Verdict'[day] = [status |-> row.status, prior |-> row.prior, count |-> row.count]
      BY <2>2, <3>1, <3>2
    <3>5. /\ DOMAIN Signals' = Day /\ DOMAIN Signals = Day
          /\ Signals'[day] = [p \in DOMAIN signals |-> [prior |-> prior, facts |-> signals[p]]]
          /\ \A d \in Day \ {day} : Signals'[d] = Signals[d]
      BY <2>4, DailySignals DEF Signals
    <3>6. /\ DOMAIN Signals'[day] = DOMAIN signals /\ DOMAIN signals \subseteq Pair
          /\ \A p \in DOMAIN Signals'[day] : Signals'[day][p].prior = prior
      BY <3>5, PartialFnLemma
    <3>7. Signals' = [Signals EXCEPT ![day] = Signals'[day]]
      <4>1. Signals' = [d \in Day |-> Signals'[d]]
        BY DEF Signals
      <4> QED  BY <3>5, <4>1
    <3>8. Verdict' = [Verdict EXCEPT ![day] =
              [status |-> "ok", prior |-> prior, count |-> Cardinality(DOMAIN Signals'[day])]]
      BY <3>4, <3>6
    <3>9. Board!Publish(day, prior, Signals'[day])
      BY <3>3, <3>6, <3>7, <3>8 DEF Board!Publish, Board!Cardinality, Cardinality
    <3> QED  BY <3>9 DEF Board!Next
  <2>5. CASE Drain
    BY <2>5, DrainStep, SameSignals, SameSpine DEF Verdict
  <2>6. CASE UNCHANGED vars
    BY <2>6, SameSignals, SameSpine DEF Verdict, vars
  <2> QED  BY <2>1, <2>3, <2>4, <2>5, <2>6 DEF Next
<1> QED  BY <1>1, <1>2, TypeCorrect, PTL DEF Spec, ImplementsBoard, Board!Spec

-----------------------------------------------------------------------------
(* A commit that is repeated. *)

\* The commit wrote one row of one captured table, with the time it finished, and its
\* transaction in _outbox carries that row and no other.
WroteOnly(table, key) ==
    /\ \A t \in Tables : DOMAIN outbox'[clock'][t] = IF t = table THEN {key} ELSE {}
    /\ \A t \in Tables : \A k \in Keys[t] : (t # table \/ k # key) => db'[t][k] = db[t][k]
    /\ db'[table][key].finished = clock'

\* commit_daily with the signals the day already has published, against the same prior.
RepeatedDay ==
    \A day, prior \in Day, signals \in PartialFn(Pair, Facts), memo \in Memo :
        (/\ CommitDaily(day, prior, signals, memo)
         /\ Signals[day] = [p \in DOMAIN signals |-> [prior |-> prior, facts |-> signals[p]]])
        => WroteOnly("signal_runs", day)

\* commit_org_map with the orgs that are live already.
RepeatedCrawl ==
    \A day \in Day, crawl \in PartialFn(Org, Rec) :
        (CommitOrgMap(day, crawl) /\ LoadLiveOrgMap = crawl) => WroteOnly("org_map_runs", day)

\* Which run rows a commit sends.
LEMMA RunEvents ==
    ASSUME TypeOK, NEW day \in Day
    PROVE  /\ \A prior, signals, memo : CommitDaily(day, prior, signals, memo) =>
                 /\ DOMAIN outbox'[clock']["signal_runs"] = {day}
                 /\ DOMAIN outbox'[clock']["org_map_runs"] = {}
           /\ \A crawl : CommitOrgMap(day, crawl) =>
                 /\ DOMAIN outbox'[clock']["org_map_runs"] = {day}
                 /\ DOMAIN outbox'[clock']["signal_runs"] = {}
<1>1. ASSUME NEW new, NEW touched, Commit(new, touched), NEW t \in Tables
      PROVE  DOMAIN outbox'[clock'][t] = touched[t]
  <2>1. clock \in Nat /\ drained \in Nat /\ drained <= clock /\ clock' = clock + 1
    BY <1>1, WorkDbAssumption DEF TypeOK, Commit
  <2>2. clock' \in drained + 1 .. clock + 1 /\ ~(clock' <= clock)
    BY <2>1
  <2>3. outbox'[clock'] = [u \in Captured |-> [k \in touched[u] |-> new[u][k]]]
    BY <1>1, <2>1, <2>2 DEF Commit
  <2>4. outbox'[clock'][t] = [k \in touched[t] |-> new[t][k]]
    BY <2>3 DEF Captured
  <2> QED  BY <2>4
<1>2. "signal_runs" \in Tables /\ "org_map_runs" \in Tables
  BY DEF Tables
<1>3. ASSUME NEW prior, NEW signals, NEW memo, CommitDaily(day, prior, signals, memo)
      PROVE  /\ DOMAIN outbox'[clock']["signal_runs"] = {day}
             /\ DOMAIN outbox'[clock']["org_map_runs"] = {}
  BY <1>1, <1>2, <1>3 DEF CommitDaily
<1>4. ASSUME NEW crawl, CommitOrgMap(day, crawl)
      PROVE  /\ DOMAIN outbox'[clock']["org_map_runs"] = {day}
             /\ DOMAIN outbox'[clock']["signal_runs"] = {}
  BY <1>1, <1>2, <1>4 DEF CommitOrgMap
<1> QED  BY <1>3, <1>4

\* Of commit_daily, what is left of the contact rows.
LEMMA DailyContact ==
    ASSUME TypeOK, NEW day \in Day, NEW prior \in Day,
           NEW signals \in PartialFn(Pair, Facts), NEW memo \in Memo,
           CommitDaily(day, prior, signals, memo)
    PROVE  db'["network_contact"] =
              Sync(db["network_contact"], DayRows(day, prior, signals), Pair \X {day})
  BY DailyStep

LEMMA RepeatedDayStep == TypeOK => RepeatedDay
<1> SUFFICES ASSUME TypeOK, NEW day \in Day, NEW prior \in Day,
                    NEW signals \in PartialFn(Pair, Facts), NEW memo \in Memo,
                    CommitDaily(day, prior, signals, memo),
                    Signals[day] = [p \in DOMAIN signals |->
                                       [prior |-> prior, facts |-> signals[p]]]
             PROVE  WroteOnly("signal_runs", day)
  BY DEF RepeatedDay
<1> DEFINE t == db["network_contact"]
           rows == DayRows(day, prior, signals)
           scope == Pair \X {day}
<1>0. db'["network_contact"] = Sync(t, rows, scope)
  BY DailyContact, Zenon
<1>1. t \in [Pair \X Day -> ContactRow \cup {Absent}]
  BY KeysRows DEF TypeOK, IsImage, Tables
<1>2. DOMAIN signals \subseteq Pair
  BY PartialFnLemma
<1>3. DOMAIN rows = (DOMAIN signals) \X {day}
  BY DEF DayRows
<1>4. ASSUME NEW p \in Pair
      PROVE  /\ p \in DOMAIN signals <=> t[<<p, day>>] # Absent /\ t[<<p, day>>].live
             /\ p \in DOMAIN signals => t[<<p, day>>].body = rows[<<p, day>>]
  <2>1. Signals[day] = [q \in {r \in Pair : <<r, day>> \in LiveKeys(t)} |-> t[<<q, day>>].body]
    BY DEF Signals
  <2>2. DOMAIN signals = {r \in Pair : <<r, day>> \in LiveKeys(t)}
    BY <2>1
  <2>3. <<p, day>> \in DOMAIN t
    BY <1>1
  <2>4. p \in DOMAIN signals <=> t[<<p, day>>] # Absent /\ t[<<p, day>>].live
    BY <2>2, <2>3 DEF LiveKeys
  <2>5. ASSUME p \in DOMAIN signals
        PROVE  t[<<p, day>>].body = rows[<<p, day>>]
    <3>1. Signals[day][p] = t[<<p, day>>].body
      BY <2>1, <2>2, <2>5
    <3>2. Signals[day][p] = [prior |-> prior, facts |-> signals[p]]
      BY <2>5
    <3>3. <<p, day>> \in (DOMAIN signals) \X {day} /\ <<p, day>>[1] = p
      BY <2>5
    <3>4. rows[<<p, day>>] = [prior |-> prior, facts |-> signals[p]]
      BY <3>3 DEF DayRows
    <3> QED  BY <3>1, <3>2, <3>4
  <2> QED  BY <2>4, <2>5
<1> HIDE DEF t, rows
<1>5. /\ DOMAIN rows \subseteq scope /\ scope \subseteq Pair \X Day
      /\ \A k \in scope : k \in DOMAIN rows <=> t[k] # Absent /\ t[k].live
      /\ \A k \in DOMAIN rows : t[k].body = rows[k]
  <2>1. \A k \in scope : \E p \in Pair : k = <<p, day>>
    OBVIOUS
  <2>2. \A p \in Pair : <<p, day>> \in DOMAIN rows <=> p \in DOMAIN signals
    BY <1>3
  <2>3. DOMAIN rows \subseteq scope
    BY <1>2, <1>3
  <2> QED  BY <1>4, <2>1, <2>2, <2>3
<1>6. Touched(t, rows, scope) = {} /\ Sync(t, rows, scope) = t
  <2> HIDE DEF scope
  <2> QED  BY NothingNew, <1>1, <1>5
<1>7. /\ clock' = clock + 1 /\ Quiet
      /\ db'["orgs"] = db["orgs"] /\ db'["org_map_runs"] = db["org_map_runs"]
      /\ db'["network_contact"] = Sync(t, rows, scope)
      /\ db'["signal_runs"] =
            [db["signal_runs"] EXCEPT ![day] =
               [status |-> "ok", prior |-> prior,
                count |-> Cardinality(DOMAIN signals), finished |-> clock + 1]]
  <2>1. /\ clock' = clock + 1 /\ Quiet
        /\ db'["orgs"] = db["orgs"] /\ db'["org_map_runs"] = db["org_map_runs"]
    BY DailyStep
  <2>2. db'["signal_runs"] =
            [db["signal_runs"] EXCEPT ![day] =
               [status |-> "ok", prior |-> prior,
                count |-> Cardinality(DOMAIN signals), finished |-> clock + 1]]
    BY DailyStep
  <2> QED  BY <1>0, <2>1, <2>2
<1>8. db["signal_runs"] \in [Day -> SignalRunRow \cup {Absent}]
  BY KeysRows DEF TypeOK, IsImage, Tables
<1>9. /\ db'["signal_runs"][day].finished = clock'
      /\ \A d \in Day : d # day => db'["signal_runs"][d] = db["signal_runs"][d]
  BY <1>7, <1>8
<1>10. db'["network_contact"] = db["network_contact"]
  BY <1>6, <1>7 DEF t
<1>11. /\ DOMAIN outbox'[clock']["network_contact"] = {}
       /\ DOMAIN outbox'[clock']["orgs"] = {}
  BY <1>7, <1>10 DEF Quiet
<1>12. /\ DOMAIN outbox'[clock']["signal_runs"] = {day}
       /\ DOMAIN outbox'[clock']["org_map_runs"] = {}
  BY RunEvents
<1> QED  BY <1>7, <1>9, <1>10, <1>11, <1>12, KeysRows DEF WroteOnly, Tables

LEMMA RepeatedCrawlStep == TypeOK => RepeatedCrawl
<1> SUFFICES ASSUME TypeOK, NEW day \in Day, NEW crawl \in PartialFn(Org, Rec),
                    CommitOrgMap(day, crawl), LoadLiveOrgMap = crawl
             PROVE  WroteOnly("org_map_runs", day)
  BY DEF RepeatedCrawl
<1> DEFINE t == db["orgs"]
<1>1. t \in [Org -> OrgRow \cup {Absent}]
  BY KeysRows DEF TypeOK, IsImage, Tables
<1>2. crawl = [k \in LiveKeys(t) |-> t[k].body]
  BY DEF LoadLiveOrgMap, Live
<1> HIDE DEF t
<1>3. /\ DOMAIN crawl \subseteq Org
      /\ \A k \in Org : k \in DOMAIN crawl <=> t[k] # Absent /\ t[k].live
      /\ \A k \in DOMAIN crawl : t[k].body = crawl[k]
  BY <1>1, <1>2 DEF LiveKeys
<1>4. Touched(t, crawl, Org) = {} /\ Sync(t, crawl, Org) = t
  BY NothingNew, <1>1, <1>3
<1>5. /\ clock' = clock + 1 /\ Quiet
      /\ db'["network_contact"] = db["network_contact"]
      /\ db'["signal_runs"] = db["signal_runs"]
      /\ db'["orgs"] = Sync(t, crawl, Org)
      /\ db'["org_map_runs"] =
            [db["org_map_runs"] EXCEPT ![day] =
               [finished |-> clock + 1, count |-> Cardinality(LiveKeys(db'["orgs"]))]]
  BY OrgMapStep DEF t
<1>6. db["org_map_runs"] \in [Day -> OrgMapRunRow \cup {Absent}]
  BY KeysRows DEF TypeOK, IsImage, Tables
<1>7. /\ db'["org_map_runs"][day].finished = clock'
      /\ \A d \in Day : d # day => db'["org_map_runs"][d] = db["org_map_runs"][d]
  BY <1>5, <1>6
<1>8. db'["orgs"] = db["orgs"]
  BY <1>4, <1>5 DEF t
<1>9. /\ DOMAIN outbox'[clock']["network_contact"] = {}
      /\ DOMAIN outbox'[clock']["orgs"] = {}
  BY <1>5, <1>8 DEF Quiet
<1>10. /\ DOMAIN outbox'[clock']["org_map_runs"] = {day}
       /\ DOMAIN outbox'[clock']["signal_runs"] = {}
  BY RunEvents
<1> QED  BY <1>5, <1>7, <1>8, <1>9, <1>10, KeysRows DEF WroteOnly, Tables

\* A whole commit that publishes again what is published already, a rerun of a day or a
\* second crawl of an unchanged registry, writes and sends its run row and nothing else:
\* every WHERE of the upserts and retractions is false, and the run row's upsert has none.
THEOREM RepeatsAreQuiet == Spec => [][RepeatedDay /\ RepeatedCrawl]_vars
<1>1. TypeOK /\ [Next]_vars => [RepeatedDay /\ RepeatedCrawl]_vars
  BY RepeatedDayStep, RepeatedCrawlStep
<1> QED  BY <1>1, TypeCorrect, PTL DEF Spec
=============================================================================
