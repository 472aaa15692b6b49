---------------------------- MODULE StoresProofs -----------------------------
(***************************************************************************)
(* Proofs about the table of DataSources, for any number of sources, keys, *)
(* start-ups, refreshes and edits; about the calls of SharedConnection,    *)
(* for any number of processes, calls, rows and failures; and about both   *)
(* of them beside Dashboards.                                              *)
(***************************************************************************)
EXTENDS MCStores, DashboardsProofs, SequenceTheorems

(* Data sources.  The inductive invariant says that a probe under way asks *)
(* with a key its source has had (Asked), so that an answer cannot name a  *)
(* stranger, and that a start-up which is about to insert has not inserted *)
(* these credentials before (Importing).  What the views hold plays no     *)
(* part in it, and has an invariant of its own.                            *)

TableOK ==
    /\ sources \in [SourceIds -> {Nobody} \cup Source]
    /\ had \in [SourceIds -> SUBSET Keys]
    /\ boot \in [Booters -> Boot]
    /\ probing \in [Refreshers -> [SourceIds -> Keys \cup {Nobody}]]

Known(key) == \E id \in SourceIds : key \in had[id]

Owned ==
    \A id \in Stored : sources[id].key \in had[id] /\ sources[id].owner \in had[id] \cup {Nobody}

Asked == \A q \in Refreshers, id \in SourceIds : probing[q][id] \in had[id] \cup {Nobody}

(* The start-up b of process p has seen to the endpoints before its next one. *)
Importing(p, b) ==
    /\ b.pc \in {"lookup", "insert"} => \A i \in 1..(b.next - 1) : Known(EnvKeys[i])
    /\ b.pc = "insert" => /\ b.next \in DOMAIN EnvKeys
                          /\ \A id \in Stored : sources[id].by = p => sources[id].key # EnvKeys[b.next]
    /\ b.pc = "done" /\ b.imports => \A i \in DOMAIN EnvKeys : Known(EnvKeys[i])

NoneTwice ==
    \A a, b \in Stored : a # b /\ sources[a].by = sources[b].by =>
       sources[a].by = Nobody \/ sources[a].key # sources[b].key

SrcInv ==
    /\ TableOK
    /\ Owned
    /\ Asked
    /\ \A p \in Booters : Importing(p, boot[p])
    /\ NoneTwice

----------------------------------------------------------------------------
(* Steps that write neither the table nor the probes nor a start-up *)
LEMMA ViewsKeep ==
    ASSUME SrcInv, UNCHANGED <<sources, had, boot, probing>>
    PROVE  SrcInv'
BY DEF SrcInv, TableOK, Owned, Asked, Importing, Known, NoneTwice, Stored

(* Steps of a refresh that write no row *)
LEMMA ProbesKeep ==
    ASSUME SrcInv, UNCHANGED <<sources, had, boot>>,
           probing' \in [Refreshers -> [SourceIds -> Keys \cup {Nobody}]], Asked'
    PROVE  SrcInv'
BY DEF SrcInv, TableOK, Owned, Importing, Known, NoneTwice, Stored

(* Steps of a start-up that write no row *)
LEMMA BootsKeep ==
    ASSUME SrcInv, NEW p \in Booters, NEW b \in Boot, Importing(p, b),
           boot' = [boot EXCEPT ![p] = b], UNCHANGED <<sources, had, probing>>
    PROVE  SrcInv'
<1>1. TableOK' /\ Owned' /\ Asked' /\ NoneTwice'
  BY DEF SrcInv, TableOK, Owned, Asked, NoneTwice, Stored
<1>2. ASSUME NEW q \in Booters PROVE Importing(q, boot[q])'
  <2>1. \A x \in Boot : Importing(q, x) => Importing(q, x)'
    BY DEF Importing, Known, Stored
  <2>2. boot'[q] = IF q = p THEN b ELSE boot[q]
    BY DEF SrcInv, TableOK
  <2>3. boot[q] \in Boot /\ Importing(q, boot[q])
    BY DEF SrcInv, TableOK
  <2> QED
    BY <2>1, <2>2, <2>3
<1> QED
  BY <1>1, <1>2 DEF SrcInv

(* One row changes: its keys grow, and unless an administrator wrote its credentials it *)
(* keeps the importer and the credentials it had.                                       *)
LEMMA RowKeeps ==
    ASSUME SrcInv, NEW id \in SourceIds, NEW row \in {Nobody} \cup Source,
           NEW keys \in SUBSET Keys, had[id] \subseteq keys,
           sources' = [sources EXCEPT ![id] = row], had' = [had EXCEPT ![id] = keys],
           row # Nobody =>
              /\ row.key \in keys /\ row.owner \in keys \cup {Nobody}
              /\ \/ row.by = Nobody
                 \/ /\ sources[id] # Nobody
                    /\ sources[id].by = row.by /\ sources[id].key = row.key,
           probing' \in [Refreshers -> [SourceIds -> Keys \cup {Nobody}]],
           \A q \in Refreshers, i \in SourceIds : probing'[q][i] \in {probing[q][i], Nobody},
           UNCHANGED boot
    PROVE  SrcInv'
<1>1. TableOK'
  BY DEF SrcInv, TableOK
<1>2. /\ sources'[id] = row /\ had'[id] = keys
      /\ \A i \in SourceIds \ {id} : sources'[i] = sources[i] /\ had'[i] = had[i]
      /\ \A i \in SourceIds : had[i] \subseteq had'[i]
  BY DEF SrcInv, TableOK
<1>3. Owned'
  BY <1>2 DEF SrcInv, Owned, Stored
<1>4. Asked'
  BY <1>2 DEF SrcInv, Asked
<1>5. \A key : Known(key) => Known(key)'
  BY <1>2 DEF Known
<1>6. ASSUME NEW i \in Stored', sources'[i].by # Nobody
      PROVE  i \in Stored /\ sources[i].by = sources'[i].by /\ sources[i].key = sources'[i].key
  BY <1>2, <1>6 DEF Stored
<1>7. NoneTwice'
  BY <1>6 DEF SrcInv, NoneTwice
<1>8. ASSUME NEW p \in Booters
      PROVE  Importing(p, boot[p])'
  <2> PICK b \in Boot : b = boot[p]
    BY DEF SrcInv, TableOK
  <2>1. Importing(p, b)
    BY DEF SrcInv
  <2>2. Importing(p, b)'
    BY <1>5, <1>6, <2>1, DataSourcesAssumption DEF Importing
  <2> QED
    BY <2>2
<1> QED
  BY <1>1, <1>3, <1>4, <1>7, <1>8 DEF SrcInv

(* The fields of a row of which some are set *)
LEMMA WithFresh ==
    ASSUME NEW s \in Source, NEW fresh \in BOOLEAN, NEW t, t = [s EXCEPT !.fresh = fresh]
    PROVE  t \in Source /\ t.key = s.key /\ t.owner = s.owner /\ t.by = s.by
BY SMT DEF Source

LEMMA IdentifiedRow ==
    ASSUME NEW s \in Source, NEW owner \in Keys \cup {Nobody}
    PROVE  /\ Identified(s, owner) \in Source /\ Identified(s, owner).key = s.key
           /\ Identified(s, owner).owner = owner /\ Identified(s, owner).by = s.by
<1> DEFINE u == [s EXCEPT !.owner = owner]
<1>1. u \in Source /\ u.key = s.key /\ u.owner = owner /\ u.by = s.by
  BY SMT DEF Source
<1>2. Identified(s, owner) = [u EXCEPT !.fresh = TRUE]
  BY DEF Identified
<1> HIDE DEF u
<1> QED
  BY <1>1, <1>2, WithFresh

LEMMA EditedRow ==
    ASSUME NEW s \in Source, NEW key \in Keys, NEW enabled \in BOOLEAN
    PROVE  /\ Edited(s, key, enabled) \in Source /\ Edited(s, key, enabled).key = key
           /\ Edited(s, key, enabled).owner = s.owner
           /\ \/ Edited(s, key, enabled).by = Nobody
              \/ Edited(s, key, enabled).by = s.by /\ s.key = key
<1> DEFINE by == IF key = s.key THEN s.by ELSE Nobody
           u == [s EXCEPT !.key = key]
           w == [u EXCEPT !.enabled = enabled]
           x == [w EXCEPT !.by = by]
<1>1. u \in Source /\ u.key = key /\ u.owner = s.owner
  BY SMT DEF Source
<1>2. Edited(s, key, enabled) = x
  BY DEF Edited
<1>3. by \in Booters \cup {Nobody} /\ (by = Nobody \/ (by = s.by /\ s.key = key))
  BY DEF Source
<1> HIDE DEF u, by
<1>4. w \in Source /\ w.key = u.key /\ w.owner = u.owner
  BY <1>1, SMT DEF Source
<1> HIDE DEF w
<1>5. x \in Source /\ x.key = w.key /\ x.owner = w.owner /\ x.by = by
  BY <1>3, <1>4, SMT DEF Source
<1> HIDE DEF x
<1> QED
  BY <1>1, <1>2, <1>3, <1>4, <1>5

LEMMA NewRow ==
    ASSUME NEW key \in Keys, NEW by \in Booters \cup {Nobody}
    PROVE  LET s == [key |-> key, enabled |-> TRUE, owner |-> Nobody, fresh |-> FALSE, by |-> by]
           IN  s \in Source /\ s.key = key /\ s.owner = Nobody /\ s.by = by
BY DEF Source

(* The tables are functions, and the rows that are there have had a key. *)
LEMMA SourceRows ==
    ASSUME SrcInv
    PROVE  /\ sources \in [SourceIds -> {Nobody} \cup Source]
           /\ had \in [SourceIds -> SUBSET Keys]
           /\ probing \in [Refreshers -> [SourceIds -> Keys \cup {Nobody}]]
           /\ \A id \in Stored : /\ id \in SourceIds /\ sources[id] \in Source
                                 /\ sources[id].key \in had[id]
                                 /\ sources[id].owner \in had[id] \cup {Nobody}
BY DEF SrcInv, TableOK, Owned, Stored

LEMMA CreateSourceKeeps ==
    ASSUME SrcInv, NEW id \in SourceIds, NEW key \in Keys, CreateSource(id, key)
    PROVE  SrcInv'
<1> DEFINE row == [key |-> key, enabled |-> TRUE, owner |-> Nobody, fresh |-> FALSE,
                   by |-> Nobody]
<1>1. row \in Source /\ row.key = key /\ row.owner = Nobody /\ row.by = Nobody
  BY NewRow
<1>2. /\ sources' = [sources EXCEPT ![id] = row] /\ had' = [had EXCEPT ![id] = {key}]
      /\ had[id] = {} /\ UNCHANGED <<boot, probing>>
  BY DEF CreateSource, NewSource
<1>3. /\ {key} \in SUBSET Keys /\ had[id] \subseteq {key}
      /\ row \in {Nobody} \cup Source /\ row.key \in {key} /\ row.owner \in {key} \cup {Nobody}
  BY <1>1, <1>2
<1>4. probing' \in [Refreshers -> [SourceIds -> Keys \cup {Nobody}]]
      /\ \A q \in Refreshers, i \in SourceIds : probing'[q][i] \in {probing[q][i], Nobody}
  BY <1>2, SourceRows
<1> HIDE DEF row
<1> QED
  BY <1>1, <1>2, <1>3, <1>4, RowKeeps

LEMMA EditSourceKeeps ==
    ASSUME SrcInv, NEW id \in SourceIds, NEW key \in Keys, NEW enabled \in BOOLEAN,
           EditSource(id, key, enabled)
    PROVE  SrcInv'
<1> DEFINE row == Edited(sources[id], key, enabled)
           keys == had[id] \cup {key}
<1>1. /\ sources[id] \in Source /\ sources[id].owner \in had[id] \cup {Nobody}
      /\ id \in Stored /\ had[id] \in SUBSET Keys
  BY SourceRows DEF EditSource
<1>2. /\ sources' = [sources EXCEPT ![id] = row] /\ had' = [had EXCEPT ![id] = keys]
      /\ UNCHANGED <<boot, probing>>
  BY <1>1, SourceRows DEF EditSource
<1>3. /\ row \in Source /\ row.key = key /\ row.owner = sources[id].owner
      /\ row.by = Nobody \/ (row.by = sources[id].by /\ sources[id].key = key)
  BY <1>1, EditedRow
<1> HIDE DEF row
<1>4. keys \in SUBSET Keys /\ had[id] \subseteq keys /\ row.key \in keys
      /\ row.owner \in keys \cup {Nobody} /\ sources[id] # Nobody
  BY <1>1, <1>3 DEF Stored
<1> HIDE DEF keys
<1> QED
  BY <1>2, <1>3, <1>4, SourceRows, RowKeeps

LEMMA DeleteSourceKeeps ==
    ASSUME SrcInv, NEW id \in SourceIds, DeleteSource(id)
    PROVE  SrcInv'
<1>1. had[id] \in SUBSET Keys /\ had' = [had EXCEPT ![id] = had[id]]
  BY SourceRows DEF DeleteSource
<1> QED
  BY <1>1, SourceRows, RowKeeps DEF DeleteSource

LEMMA TtlPassesKeeps ==
    ASSUME SrcInv, NEW id \in SourceIds, TtlPasses(id)
    PROVE  SrcInv'
<1> DEFINE row == [sources[id] EXCEPT !.fresh = FALSE]
<1>1. /\ sources[id] \in Source /\ sources[id] # Nobody /\ sources[id].key \in had[id]
      /\ sources[id].owner \in had[id] \cup {Nobody}
  BY SourceRows DEF TtlPasses, Stored
<1>2. /\ row \in Source /\ row.key = sources[id].key /\ row.owner = sources[id].owner
      /\ row.by = sources[id].by
  BY <1>1, WithFresh
<1>3. sources' = [sources EXCEPT ![id] = row] /\ UNCHANGED <<had, boot, probing>>
  BY <1>1, SourceRows DEF TtlPasses
<1> HIDE DEF row
<1>4. had[id] \in SUBSET Keys /\ had' = [had EXCEPT ![id] = had[id]]
  BY <1>3, SourceRows
<1> QED
  BY <1>1, <1>2, <1>3, <1>4, SourceRows, RowKeeps

(* The key that was asked with may have been replaced, but the source has had it. *)
LEMMA WriteIdentityKeeps ==
    ASSUME SrcInv, NEW q \in Refreshers, NEW id \in SourceIds, NEW owner \in Keys \cup {Nobody},
           WriteIdentity(q, id, owner)
    PROVE  SrcInv'
<1> DEFINE row == IF sources[id] = Nobody THEN Nobody
                  ELSE Identified(sources[id], owner)
<1>1. owner \in had[id] \cup {Nobody}
  BY DEF WriteIdentity, SrcInv, Asked
<1>2. sources' = [sources EXCEPT ![id] = row] /\ UNCHANGED <<had, boot>>
  BY SourceRows DEF WriteIdentity
<1>3. sources[id] # Nobody =>
         /\ row \in Source /\ row.key = sources[id].key /\ row.owner = owner
         /\ row.by = sources[id].by /\ sources[id].key \in had[id]
  <2> SUFFICES ASSUME sources[id] # Nobody
               PROVE  /\ row \in Source /\ row.key = sources[id].key /\ row.owner = owner
                      /\ row.by = sources[id].by /\ sources[id].key \in had[id]
    OBVIOUS
  <2>1. sources[id] \in Source /\ sources[id].key \in had[id]
    BY SourceRows DEF Stored
  <2>2. row = Identified(sources[id], owner)
    OBVIOUS
  <2> QED
    BY <2>1, <2>2, IdentifiedRow
<1>4. sources[id] = Nobody => row = Nobody
  OBVIOUS
<1> HIDE DEF row
<1>5. /\ probing' \in [Refreshers -> [SourceIds -> Keys \cup {Nobody}]]
      /\ \A r \in Refreshers, i \in SourceIds : probing'[r][i] \in {probing[r][i], Nobody}
  BY SourceRows DEF WriteIdentity, Answered
<1>6. had[id] \in SUBSET Keys /\ had' = [had EXCEPT ![id] = had[id]]
  BY <1>2, SourceRows
<1>7. /\ row \in {Nobody} \cup Source
      /\ row # Nobody =>
            /\ row.key \in had[id] /\ row.owner \in had[id] \cup {Nobody}
            /\ sources[id] # Nobody /\ sources[id].by = row.by /\ sources[id].key = row.key
  BY <1>1, <1>3, <1>4
<1> QED
  BY <1>2, <1>5, <1>6, <1>7, RowKeeps

LEMMA ProbeLostKeeps ==
    ASSUME SrcInv, NEW q \in Refreshers, NEW id \in SourceIds, ProbeLost(q, id)
    PROVE  SrcInv'
<1>1. /\ probing' \in [Refreshers -> [SourceIds -> Keys \cup {Nobody}]]
      /\ \A r \in Refreshers, i \in SourceIds : probing'[r][i] \in {probing[r][i], Nobody}
      /\ UNCHANGED <<sources, had, boot>>
  BY SourceRows DEF ProbeLost, Answered
<1>2. Asked'
  BY <1>1 DEF SrcInv, Asked
<1> QED
  BY <1>1, <1>2, ProbesKeep

LEMMA StartRefreshKeeps ==
    ASSUME SrcInv, NEW q \in Refreshers, NEW onlyStale \in BOOLEAN, StartRefresh(q, onlyStale)
    PROVE  SrcInv'
<1> DEFINE asked == [id \in SourceIds |->
                       IF id \in ProbeTargets(onlyStale) THEN sources[id].key ELSE Nobody]
<1>1. \A id \in SourceIds : asked[id] \in had[id] \cup {Nobody}
  BY SourceRows DEF ProbeTargets, Enabled
<1>2. asked \in [SourceIds -> Keys \cup {Nobody}]
  BY <1>1, SourceRows
<1>3. probing' = [probing EXCEPT ![q] = asked] /\ UNCHANGED <<sources, had, boot>>
  BY DEF StartRefresh
<1> HIDE DEF asked
<1>4. probing' \in [Refreshers -> [SourceIds -> Keys \cup {Nobody}]]
  BY <1>2, <1>3, SourceRows
<1>5. Asked'
  BY <1>1, <1>3, SourceRows DEF SrcInv, Asked
<1> QED
  BY <1>3, <1>4, <1>5, ProbesKeep

(* Start-ups of which one field is set *)
LEMMA BootFields ==
    ASSUME NEW b \in Boot, NEW pc \in {"down", "lookup", "insert", "done"},
           NEW next \in 1..Len(EnvKeys) + 1
    PROVE  /\ [b EXCEPT !.pc = pc] \in Boot
           /\ [b EXCEPT !.pc = pc].pc = pc /\ [b EXCEPT !.pc = pc].next = b.next
           /\ [b EXCEPT !.next = next] \in Boot
           /\ [b EXCEPT !.next = next].pc = b.pc /\ [b EXCEPT !.next = next].next = next
<1>1. [b EXCEPT !.pc = pc] \in Boot
  BY SMT DEF Boot
<1>2. [b EXCEPT !.next = next] \in Boot
  BY SMT DEF Boot
<1> QED
  BY <1>1, <1>2, SMT DEF Boot

LEMMA EnvKeysType ==
    /\ Len(EnvKeys) \in Nat /\ DOMAIN EnvKeys = 1..Len(EnvKeys)
    /\ \A i \in DOMAIN EnvKeys : EnvKeys[i] \in Keys
BY DataSourcesAssumption

LEMMA BootCountKeeps ==
    ASSUME SrcInv, NEW p \in Booters, BootCount(p)
    PROVE  SrcInv'
<1> PICK b : b = [pc |-> IF Stored # {} THEN "done" ELSE "lookup", next |-> 1,
                  imports |-> Stored = {}]
  OBVIOUS
<1>1. 1 \in 1..Len(EnvKeys) + 1
  BY EnvKeysType, SMT
<1>2. b \in Boot
  <2>1. (Stored = {}) \in BOOLEAN
    OBVIOUS
  <2>2. (IF Stored # {} THEN "done" ELSE "lookup") \in {"down", "lookup", "insert", "done"}
    OBVIOUS
  <2> QED
    BY <1>1, <2>1, <2>2, Zenon DEF Boot
<1>3. boot' = [boot EXCEPT ![p] = b] /\ UNCHANGED <<sources, had, probing>>
  BY Zenon DEF BootCount
<1>4. CASE Stored = {}
  <2>1. b.pc = "lookup" /\ b.next = 1
    BY <1>4, Zenon
  <2>2. Importing(p, b)
    BY <2>1, SMT DEF Importing
  <2> QED
    BY <1>2, <1>3, <2>2, BootsKeep
<1>5. CASE Stored # {}
  <2>1. b.pc = "done" /\ ~b.imports
    BY <1>5, Zenon
  <2>2. Importing(p, b)
    BY <2>1 DEF Importing
  <2> QED
    BY <1>2, <1>3, <2>2, BootsKeep
<1> QED
  BY <1>4, <1>5

LEMMA BootLookupKeeps ==
    ASSUME SrcInv, NEW p \in Booters, BootLookup(p)
    PROVE  SrcInv'
<1>1. /\ boot[p] \in Boot /\ boot[p].pc = "lookup" /\ Importing(p, boot[p])
      /\ boot[p].next \in 1..Len(EnvKeys) + 1 /\ UNCHANGED <<sources, had, probing>>
  BY DEF SrcInv, TableOK, Boot, BootLookup
<1>2. \A i \in 1..(boot[p].next - 1) : Known(EnvKeys[i])
  BY <1>1 DEF Importing
<1>3. CASE boot[p].next > Len(EnvKeys)
  <2> DEFINE b == [boot[p] EXCEPT !.pc = "done"]
  <2>1. b \in Boot /\ b.pc = "done"
    BY <1>1, BootFields
  <2>2. boot' = [boot EXCEPT ![p] = b]
    BY <1>1, <1>3 DEF BootLookup, SrcInv, TableOK
  <2> HIDE DEF b
  <2>3. DOMAIN EnvKeys \subseteq 1..(boot[p].next - 1)
    BY <1>1, <1>3, EnvKeysType, SMT
  <2>4. Importing(p, b)
    BY <1>2, <2>1, <2>3 DEF Importing
  <2> QED
    BY <1>1, <2>1, <2>2, <2>4, BootsKeep
<1>4. CASE boot[p].next <= Len(EnvKeys) /\ HasKey(EnvKeys[boot[p].next])
  <2> DEFINE b == [boot[p] EXCEPT !.next = boot[p].next + 1]
  <2>1. boot[p].next + 1 \in 1..Len(EnvKeys) + 1
    BY <1>1, <1>4, EnvKeysType, SMT
  <2>2. b \in Boot /\ b.pc = "lookup" /\ b.next = boot[p].next + 1
    BY <1>1, <2>1, BootFields
  <2>3. boot' = [boot EXCEPT ![p] = b]
    <3>1. ~(boot[p].next > Len(EnvKeys))
      BY <1>1, <1>4, EnvKeysType, SMT
    <3> QED
      BY <1>1, <1>4, <3>1 DEF BootLookup, SrcInv, TableOK
  <2> HIDE DEF b
  <2>4. Known(EnvKeys[boot[p].next])
    BY <1>4, SourceRows DEF HasKey, Known
  <2>5. \A i \in 1..(b.next - 1) : Known(EnvKeys[i])
    <3>1. \A i \in 1..(b.next - 1) : i = boot[p].next \/ i \in 1..(boot[p].next - 1)
      BY <1>1, <2>2, EnvKeysType, SMT
    <3> QED
      BY <1>2, <2>4, <3>1
  <2>6. Importing(p, b)
    BY <2>2, <2>5 DEF Importing
  <2> QED
    BY <1>1, <2>2, <2>3, <2>6, BootsKeep
<1>5. CASE boot[p].next <= Len(EnvKeys) /\ ~HasKey(EnvKeys[boot[p].next])
  <2> DEFINE b == [boot[p] EXCEPT !.pc = "insert"]
  <2>1. b \in Boot /\ b.pc = "insert" /\ b.next = boot[p].next
    BY <1>1, BootFields
  <2>2. boot' = [boot EXCEPT ![p] = b]
    <3>1. ~(boot[p].next > Len(EnvKeys))
      BY <1>1, <1>5, EnvKeysType, SMT
    <3> QED
      BY <1>1, <1>5, <3>1 DEF BootLookup, SrcInv, TableOK
  <2> HIDE DEF b
  <2>3. b.next \in DOMAIN EnvKeys
    BY <1>1, <1>5, <2>1, EnvKeysType, SMT
  <2>4. Importing(p, b)
    BY <1>2, <1>5, <2>1, <2>3 DEF Importing, HasKey
  <2> QED
    BY <1>1, <2>1, <2>2, <2>4, BootsKeep
<1>6. boot[p].next > Len(EnvKeys) \/ boot[p].next <= Len(EnvKeys)
  BY <1>1, EnvKeysType, SMT
<1> QED
  BY <1>3, <1>4, <1>5, <1>6

LEMMA BootDiesKeeps ==
    ASSUME SrcInv, NEW p \in Booters, BootDies(p)
    PROVE  SrcInv'
<1>1. 1 \in 1..Len(EnvKeys) + 1
  BY EnvKeysType, SMT
<1>2. BootDown \in Boot /\ BootDown.pc = "down"
  BY <1>1 DEF BootDown, Boot
<1>3. Importing(p, BootDown)
  BY <1>2 DEF Importing
<1> QED
  BY <1>2, <1>3, BootsKeep DEF BootDies

LEMMA BootInsertKeeps ==
    ASSUME SrcInv, NEW p \in Booters, BootInsert(p)
    PROVE  SrcInv'
<1> PICK key : key = EnvKeys[boot[p].next]
  OBVIOUS
<1> DEFINE row == [key |-> key, enabled |-> TRUE, owner |-> Nobody, fresh |-> FALSE, by |-> p]
           c == [boot[p] EXCEPT !.pc = "lookup"]
           b == [c EXCEPT !.next = boot[p].next + 1]
<1>1. /\ boot[p] \in Boot /\ boot[p].pc = "insert" /\ Importing(p, boot[p])
      /\ boot[p].next \in 1..Len(EnvKeys) + 1 /\ UNCHANGED probing
  BY DEF SrcInv, TableOK, Boot, BootInsert
<1>2. /\ boot[p].next \in DOMAIN EnvKeys /\ key \in Keys
      /\ \A i \in Stored : sources[i].by = p => sources[i].key # key
      /\ \A i \in 1..(boot[p].next - 1) : Known(EnvKeys[i])
  BY <1>1, EnvKeysType DEF Importing
<1>3. boot' = [boot EXCEPT ![p] = b]
  BY <1>1 DEF BootInsert, SrcInv, TableOK
<1>4. b \in Boot /\ b.pc = "lookup" /\ b.next = boot[p].next + 1
  <2>1. c \in Boot /\ c.pc = "lookup"
    BY <1>1, BootFields
  <2>2. boot[p].next + 1 \in 1..Len(EnvKeys) + 1
    BY <1>1, <1>2, EnvKeysType, SMT
  <2> HIDE DEF c
  <2> QED
    BY <2>1, <2>2, BootFields
<1>5. row \in Source /\ row.key = key /\ row.owner = Nobody /\ row.by = p
  BY <1>2, NewRow
<1>6. PICK id \in SourceIds : /\ had[id] = {}
                              /\ sources' = [sources EXCEPT ![id] = row]
                              /\ had' = [had EXCEPT ![id] = {key}]
  BY DEF BootInsert, NewSource
<1> HIDE DEF b, c, row
<1>7. TableOK'
  BY <1>1, <1>2, <1>3, <1>4, <1>5, <1>6 DEF SrcInv, TableOK
<1>8. /\ sources'[id] = row /\ had'[id] = {key} /\ id \notin Stored
      /\ \A i \in SourceIds \ {id} : sources'[i] = sources[i] /\ had'[i] = had[i]
      /\ \A i \in SourceIds : had[i] \subseteq had'[i]
  BY <1>6, SourceRows
<1>9. Owned'
  BY <1>5, <1>8, SourceRows DEF Owned, Stored
<1>10. Asked'
  BY <1>1, <1>8 DEF SrcInv, Asked
<1>11. (\A k : Known(k) => Known(k)') /\ Known(key)'
  BY <1>6, <1>8 DEF Known
<1>12. ASSUME NEW i \in Stored', i # id
       PROVE  i \in Stored /\ sources'[i] = sources[i]
  BY <1>8, <1>12 DEF Stored
<1>13. NoneTwice'
  <2> SUFFICES ASSUME NEW x \in Stored', NEW y \in Stored', x # y,
                      sources'[x].by = sources'[y].by, sources'[x].by # Nobody
               PROVE  sources'[x].key # sources'[y].key
    BY DEF NoneTwice
  <2>1. CASE x # id /\ y # id
    BY <1>12, <2>1 DEF SrcInv, NoneTwice
  <2>2. CASE x = id
    BY <1>2, <1>5, <1>8, <1>12, <2>2
  <2>3. CASE y = id
    BY <1>2, <1>5, <1>8, <1>12, <2>3
  <2> QED
    BY <2>1, <2>2, <2>3
<1>14. ASSUME NEW q \in Booters
       PROVE  Importing(q, boot[q])'
  <2>1. CASE q = p
    <3>1. boot'[q] = b
      BY <1>3, <2>1 DEF SrcInv, TableOK
    <3>2. \A i \in 1..(b.next - 1) : i = boot[p].next \/ i \in 1..(boot[p].next - 1)
      BY <1>1, <1>4, EnvKeysType, SMT
    <3>3. \A i \in 1..(b.next - 1) : Known(EnvKeys[i])'
      BY <1>2, <1>11, <3>2
    <3>4. \A x : x = b => Importing(q, x)'
      BY <1>4, <3>3 DEF Importing
    <3> QED
      BY <3>1, <3>4
  <2>2. CASE q # p
    <3> PICK x \in Boot : x = boot[q]
      BY DEF SrcInv, TableOK
    <3>1. boot'[q] = x
      BY <1>3, <2>2
    <3>2. Importing(q, x)
      BY DEF SrcInv
    <3>3. \A i \in Stored' : sources'[i].by = q => i \in Stored /\ sources'[i] = sources[i]
      BY <1>5, <1>8, <1>12, <2>2
    <3>4. Importing(q, x)'
      BY <1>11, <3>2, <3>3 DEF Importing
    <3> QED
      BY <3>1, <3>4
  <2> QED
    BY <2>1, <2>2
<1> QED
  BY <1>7, <1>9, <1>10, <1>13, <1>14 DEF SrcInv

LEMMA SrcNextKeeps ==
    ASSUME SrcInv, [SrcNext]_srcVars
    PROVE  SrcInv'
<1>1. ASSUME NEW p \in Booters, Booting(p) PROVE SrcInv'
  BY <1>1, BootCountKeeps, BootLookupKeeps, BootInsertKeeps, BootDiesKeeps DEF Booting
<1>2. ASSUME NEW id \in SourceIds, Administering(id) \/ TtlPasses(id) PROVE SrcInv'
  BY <1>2, CreateSourceKeeps, EditSourceKeeps, DeleteSourceKeeps, TtlPassesKeeps DEF Administering
<1>3. ASSUME NEW q \in Refreshers, Probing(q) PROVE SrcInv'
  BY <1>3, StartRefreshKeeps, WriteIdentityKeeps, ProbeLostKeeps DEF Probing
<1>4. ASSUME NEW v \in Views, Viewing(v) PROVE SrcInv'
  BY <1>4, ViewsKeep DEF Viewing, StartList, StartBase, ReadTags, Merge
<1>5. CASE UNCHANGED srcVars
  BY <1>5, ViewsKeep DEF srcVars
<1> QED
  BY <1>1, <1>2, <1>3, <1>4, <1>5 DEF SrcNext

LEMMA SrcInitHolds ==
    ASSUME SrcInit
    PROVE  SrcInv
<1>1. 1 \in 1..Len(EnvKeys) + 1
  BY EnvKeysType, SMT
<1>2. \A p \in Booters : boot[p] = BootDown /\ BootDown \in Boot /\ BootDown.pc = "down"
  BY <1>1 DEF SrcInit, BootDown, Boot
<1>3. \A p \in Booters : Importing(p, boot[p])
  BY <1>2 DEF Importing
<1>4. PICK filled \in SUBSET SourceIds : \E keys \in [filled -> Keys] :
         /\ sources = [id \in SourceIds |->
               IF id \in filled THEN AdminSource(keys[id]) ELSE Nobody]
         /\ had = [id \in SourceIds |-> IF id \in filled THEN {keys[id]} ELSE {}]
  BY DEF SrcInit
<1>5. PICK keys \in [filled -> Keys] :
         /\ sources = [id \in SourceIds |->
               IF id \in filled THEN AdminSource(keys[id]) ELSE Nobody]
         /\ had = [id \in SourceIds |-> IF id \in filled THEN {keys[id]} ELSE {}]
  BY <1>4
<1>6. \A key \in Keys : /\ AdminSource(key) \in Source /\ AdminSource(key).key = key
                        /\ AdminSource(key).owner = Nobody /\ AdminSource(key).by = Nobody
  BY DEF AdminSource, Source
<1>7. TableOK
  <2>1. sources \in [SourceIds -> {Nobody} \cup Source] /\ had \in [SourceIds -> SUBSET Keys]
    BY <1>5, <1>6
  <2>2. boot \in [Booters -> Boot] /\ probing \in [Refreshers -> [SourceIds -> Keys \cup {Nobody}]]
    BY <1>2 DEF SrcInit
  <2> QED
    BY <2>1, <2>2 DEF TableOK
<1>8. \A id \in Stored : /\ sources[id].by = Nobody /\ sources[id].key \in had[id]
                         /\ sources[id].owner = Nobody
  BY <1>5, <1>6 DEF Stored
<1>9. Asked
  BY DEF SrcInit, Asked
<1> QED
  BY <1>3, <1>7, <1>8, <1>9 DEF SrcInv, Owned, NoneTwice

----------------------------------------------------------------------------
(* The inductive invariant holds in every reachable state of the table of sources. *)
THEOREM SrcInvHolds == SrcSpec => []SrcInv
<1>1. SrcInit => SrcInv
  BY SrcInitHolds
<1>2. SrcInv /\ [SrcNext]_srcVars => SrcInv'
  BY SrcNextKeeps
<1> QED
  BY <1>1, <1>2, PTL DEF SrcSpec

(* A finished import has left no endpoint out, and one process imports nothing twice. *)
THEOREM EveryEndpointImportedOnce == SrcSpec => []ImportsEachOnce
<1>1. SrcInv => ImportsEachOnce
  BY DEF SrcInv, Importing, Known, NoneTwice, ImportsEachOnce
<1> QED
  BY <1>1, SrcInvHolds, PTL

(* No identity is shown that belongs to a key the source never had. *)
THEOREM IdentityBelongsToSource == SrcSpec => []IdentityIsOwn
<1>1. SrcInv => IdentityIsOwn
  BY DEF SrcInv, Owned, IdentityIsOwn
<1> QED
  BY <1>1, SrcInvHolds, PTL

(* A late answer brings no deleted source back, nor does an import. *)
THEOREM DeletedSourceStaysDeleted == SrcSpec => NoSourceReturns
<1>1. ASSUME SrcInv, [SrcNext]_srcVars
      PROVE  \A id \in SourceIds :
                had[id] # {} /\ sources[id] = Nobody => sources'[id] = Nobody
  <2> SUFFICES ASSUME NEW id \in SourceIds, had[id] # {}, sources[id] = Nobody
               PROVE  sources'[id] = Nobody
    OBVIOUS
  <2>1. sources \in [SourceIds -> {Nobody} \cup Source]
    BY <1>1, SourceRows
  <2>2. ASSUME NEW p \in Booters, Booting(p) PROVE sources'[id] = Nobody
    BY <2>1, <2>2 DEF Booting, BootCount, BootLookup, BootInsert, BootDies, NewSource
  <2>3. ASSUME NEW i \in SourceIds, Administering(i) \/ TtlPasses(i) PROVE sources'[id] = Nobody
    BY <2>1, <2>3 DEF Administering, CreateSource, NewSource, EditSource, DeleteSource,
       TtlPasses, Stored
  <2>4. ASSUME NEW q \in Refreshers, Probing(q) PROVE sources'[id] = Nobody
    BY <2>1, <2>4 DEF Probing, StartRefresh, WriteIdentity, ProbeLost
  <2>5. ASSUME NEW v \in Views, Viewing(v) PROVE sources'[id] = Nobody
    BY <2>5 DEF Viewing, StartList, StartBase, ReadTags, Merge
  <2>6. CASE UNCHANGED srcVars
    BY <2>6 DEF srcVars
  <2> QED
    BY <1>1, <2>2, <2>3, <2>4, <2>5, <2>6 DEF SrcNext
<1> QED
  BY <1>1, SrcInvHolds, PTL DEF SrcSpec, NoSourceReturns

----------------------------------------------------------------------------
(* The views: base data reads full lists, and what a list is made of its tags are made of. *)

ViewOK(x) ==
    /\ x \in View
    /\ x.kind = "list" /\ x.pc = "fetching" => x.services = x.tags
    /\ x.pc = "tagging" => x.kind = "base"
    /\ x.kind = "base" => x.services \in Seq(Entry) /\ x.tags \in Seq(Entry)

ViewsInv ==
    /\ view \in [Views -> View]
    /\ \A v \in Views : ViewOK(view[v])
    /\ boots \in 0..MaxBoots /\ edits \in 0..MaxEdits

(* A list holds entries, and its places are among those of the environment's list or *)
(* those of a list of all sources.                                                   *)
LEMMA ListedEntries ==
    ASSUME TableOK, NEW list \in Listed
    PROVE  list \in Seq(Entry) /\ list \in Entries
<1>1. CASE Enabled = {}
  <2>1. list = EnvEntries
    BY <1>1 DEF Listed
  <2>2. Len(EnvKeys) \in Nat /\ DOMAIN EnvKeys = 1..Len(EnvKeys) /\ DOMAIN EnvIds = DOMAIN EnvKeys
    BY DataSourcesAssumption
  <2>3. \A i \in DOMAIN EnvKeys : [id |-> EnvIds[i], key |-> EnvKeys[i]] \in Entry
    BY <2>2, EnvKeysType DEF Entry, ToSet
  <2>4. list \in [DOMAIN EnvKeys -> Entry]
    BY <2>1, <2>3 DEF EnvEntries
  <2>5. list \in Seq(Entry)
    BY <2>2, <2>4, SeqDef
  <2>6. DOMAIN EnvKeys \in SUBSET Places
    BY DEF Places
  <2> QED
    BY <2>4, <2>5, <2>6 DEF Entries
<1>2. CASE Enabled # {}
  <2>1. PICK s \in Listings : list = [i \in DOMAIN s |-> [id |-> s[i], key |-> sources[s[i]].key]]
    BY <1>2 DEF Listed
  <2>2. PICK n : n = Cardinality(Enabled)
    OBVIOUS
  <2>3. s \in [1..n -> Enabled]
    BY <2>1, <2>2 DEF Listings, SetToSeqs
  <2>4. Enabled \subseteq SourceIds /\ \A id \in Enabled : sources[id].key \in Keys
    BY DEF Enabled, Stored, TableOK, Source
  <2>5. n \in Nat /\ Cardinality(SourceIds) \in Nat /\ n <= Cardinality(SourceIds)
    <3>1. IsFiniteSet(SourceIds)
      BY DataSourcesAssumption
    <3>2. IsFiniteSet(Enabled) /\ Cardinality(Enabled) <= Cardinality(SourceIds)
      BY <2>4, <3>1, FS_Subset
    <3> QED
      BY <2>2, <3>1, <3>2, FS_CardinalityType
  <2>6. \A i \in 1..n : [id |-> s[i], key |-> sources[s[i]].key] \in Entry
    BY <2>3, <2>4 DEF Entry
  <2>7. list \in [1..n -> Entry]
    BY <2>1, <2>3, <2>6
  <2>8. list \in Seq(Entry)
    BY <2>5, <2>7, SeqDef
  <2>9. 1..n \in SUBSET Places
    BY <2>5 DEF Places
  <2> QED
    BY <2>7, <2>8, <2>9 DEF Entries
<1> QED
  BY <1>1, <1>2

LEMMA LoadedEntries ==
    ASSUME NEW list \in Entries, NEW selection
    PROVE  Loaded(list, selection) \in Entries
<1>1. PICK places \in SUBSET Places : list \in [places -> Entry]
  BY DEF Entries
<1>2. CASE selection = <<>>
  BY <1>2 DEF Loaded
<1>3. CASE selection # <<>>
  <2> DEFINE kept == {i \in DOMAIN list : list[i].id \in Allowed(selection)}
  <2>1. Loaded(list, selection) \in [kept -> Entry]
    BY <1>1, <1>3 DEF Loaded, Restrict
  <2>2. kept \in SUBSET Places
    BY <1>1
  <2> HIDE DEF kept
  <2> QED
    BY <2>1, <2>2 DEF Entries
<1> QED
  BY <1>2, <1>3

(* A tag that is known is not the unknown one. *)
LEMMA KnownTags ==
    ASSUME NEW tags \in Entries, NEW i
    PROVE  /\ i \in DOMAIN tags => Tag(tags, i) = tags[i].id /\ Tag(tags, i) # UnknownSource
           /\ Tag(tags, i) \in SourceIds \cup ToSet(EnvIds) \cup {UnknownSource}
<1>1. PICK places \in SUBSET Places : tags \in [places -> Entry]
  BY DEF Entries
<1>2. i \in DOMAIN tags => tags[i].id \in SourceIds \cup ToSet(EnvIds)
  BY <1>1 DEF Entry
<1>3. UnknownSource \notin SourceIds \cup ToSet(EnvIds)
  BY DataSourcesAssumption
<1> QED
  BY <1>2, <1>3 DEF Tag

LEMMA IdleViewOK == ViewOK(IdleView)
<1>1. <<>> \in Entries
  <2>1. <<>> \in [{} -> Entry] /\ {} \in SUBSET Places
    OBVIOUS
  <2> QED
    BY <2>1 DEF Entries
<1> QED
  BY <1>1 DEF ViewOK, IdleView, View

LEMMA StartListKeeps ==
    ASSUME TableOK, ViewsInv, NEW v \in Views, NEW selection, StartList(v, selection)
    PROVE  ViewsInv'
<1>1. PICK list \in Listed :
         view' = [view EXCEPT ![v] = [IdleView EXCEPT
            !.pc = "fetching", !.services = Loaded(list, selection),
            !.tags = Loaded(list, selection)]]
  BY DEF StartList
<1>2. PICK loaded \in Entries : loaded = Loaded(list, selection)
  BY ListedEntries, LoadedEntries
<1>3. PICK x : x = [IdleView EXCEPT !.pc = "fetching", !.services = loaded, !.tags = loaded]
  OBVIOUS
<1>4. view' = [view EXCEPT ![v] = x]
  BY <1>1, <1>2, <1>3
<1>5. IdleView \in View
  BY IdleViewOK DEF ViewOK
<1>6. /\ x \in View /\ x.kind = "list" /\ x.pc = "fetching"
      /\ x.services = loaded /\ x.tags = loaded
  BY <1>3, <1>5 DEF View, IdleView
<1>7. ViewOK(x)
  BY <1>6 DEF ViewOK
<1> QED
  BY <1>4, <1>6, <1>7 DEF ViewsInv, StartList

LEMMA StartBaseKeeps ==
    ASSUME TableOK, ViewsInv, NEW v \in Views, StartBase(v)
    PROVE  ViewsInv'
<1>1. PICK list \in Listed :
         view' = [view EXCEPT ![v] = [IdleView EXCEPT
            !.kind = "base", !.pc = "tagging", !.services = list]]
  BY DEF StartBase
<1>2. list \in Entries /\ list \in Seq(Entry) /\ <<>> \in Seq(Entry)
  BY ListedEntries
<1>3. PICK x : x = [IdleView EXCEPT !.kind = "base", !.pc = "tagging", !.services = list]
  OBVIOUS
<1>4. view' = [view EXCEPT ![v] = x]
  BY <1>1, <1>3
<1>5. IdleView \in View
  BY IdleViewOK DEF ViewOK
<1>6. /\ x \in View /\ x.kind = "base" /\ x.pc = "tagging"
      /\ x.services = list /\ x.tags = <<>>
  BY <1>2, <1>3, <1>5 DEF View, IdleView
<1>7. ViewOK(x)
  BY <1>2, <1>6 DEF ViewOK
<1> QED
  BY <1>4, <1>6, <1>7 DEF ViewsInv, StartBase

LEMMA ReadTagsKeeps ==
    ASSUME TableOK, ViewsInv, NEW v \in Views, ReadTags(v)
    PROVE  ViewsInv'
<1>1. PICK list \in Listed : view' = [view EXCEPT ![v].pc = "fetching", ![v].tags = list]
  BY DEF ReadTags
<1>2. list \in Entries /\ list \in Seq(Entry)
  BY ListedEntries
<1>3. PICK y : y = view[v]
  OBVIOUS
<1>4. y \in View /\ y.kind = "base" /\ y.services \in Seq(Entry)
  BY <1>3 DEF ViewsInv, ReadTags, ViewOK
<1>5. PICK x : x = [y EXCEPT !.pc = "fetching", !.tags = list]
  OBVIOUS
<1>6. view' = [view EXCEPT ![v] = x]
  BY <1>1, <1>3, <1>5 DEF ViewsInv
<1>7. /\ x \in View /\ x.kind = "base" /\ x.pc = "fetching"
      /\ x.services = y.services /\ x.tags = list
  BY <1>2, <1>4, <1>5 DEF View
<1>8. ViewOK(x)
  BY <1>2, <1>4, <1>7 DEF ViewOK
<1> QED
  BY <1>6, <1>7, <1>8 DEF ViewsInv, ReadTags

LEMMA MergedItems ==
    ASSUME NEW services \in Entries, NEW tags \in Entries, NEW answered \in SUBSET DOMAIN services
    PROVE  TaggedItems(services, tags, answered)
              \subseteq [key : Keys, tag : SourceIds \cup ToSet(EnvIds) \cup {UnknownSource}]
<1>1. \A i \in answered : services[i].key \in Keys
  BY DEF Entries, Entry
<1>2. \A i \in answered : Tag(tags, i) \in SourceIds \cup ToSet(EnvIds) \cup {UnknownSource}
  BY KnownTags
<1> QED
  BY <1>1, <1>2 DEF TaggedItems

LEMMA MergeKeeps ==
    ASSUME ViewsInv, NEW v \in Views, Merge(v)
    PROVE  ViewsInv'
<1>1. PICK answered \in SUBSET DOMAIN view[v].services :
         view' = [view EXCEPT ![v] = [IdleView EXCEPT !.pc = "done",
            !.items = TaggedItems(view[v].services, view[v].tags, answered)]]
  BY DEF Merge
<1>2. view[v].services \in Entries /\ view[v].tags \in Entries
  BY DEF ViewsInv, View
<1>3. PICK items : items = TaggedItems(view[v].services, view[v].tags, answered)
  OBVIOUS
<1>4. items \in SUBSET [key : Keys, tag : SourceIds \cup ToSet(EnvIds) \cup {UnknownSource}]
  BY <1>2, <1>3, MergedItems
<1>5. PICK x : x = [IdleView EXCEPT !.pc = "done", !.items = items]
  OBVIOUS
<1>6. view' = [view EXCEPT ![v] = x]
  BY <1>1, <1>3, <1>5
<1>7. IdleView \in View
  BY IdleViewOK DEF ViewOK
<1>8. x \in View /\ x.kind = "list" /\ x.pc = "done"
  BY <1>4, <1>5, <1>7 DEF View, IdleView
<1>9. ViewOK(x)
  BY <1>8 DEF ViewOK
<1> QED
  BY <1>6, <1>8, <1>9 DEF ViewsInv, Merge

LEMMA ViewsStay ==
    ASSUME ViewsInv, view' = view, boots' \in 0..MaxBoots, edits' \in 0..MaxEdits
    PROVE  ViewsInv'
  BY DEF ViewsInv

LEMMA ViewsNext ==
    ASSUME TableOK, ViewsInv, [SrcNext]_srcVars
    PROVE  ViewsInv'
<1>1. /\ boots \in 0..MaxBoots /\ edits \in 0..MaxEdits
      /\ MaxBoots \in Nat /\ MaxEdits \in Nat
  BY DataSourcesAssumption DEF ViewsInv
<1>2. ASSUME NEW p \in Booters, Booting(p) PROVE ViewsInv'
  <2>1. /\ view' = view /\ edits' = edits
        /\ (boots' = boots \/ (boots < MaxBoots /\ boots' = boots + 1))
    BY <1>2 DEF Booting, BootCount, BootLookup, BootInsert, BootDies
  <2> QED
    BY <1>1, <2>1, ViewsStay
<1>3. ASSUME NEW id \in SourceIds, Administering(id) \/ TtlPasses(id) PROVE ViewsInv'
  <2>1. /\ view' = view /\ boots' = boots
        /\ (edits' = edits \/ (edits < MaxEdits /\ edits' = edits + 1))
    BY <1>3 DEF Administering, CreateSource, EditSource, DeleteSource, TtlPasses
  <2> QED
    BY <1>1, <2>1, ViewsStay
<1>4. ASSUME NEW q \in Refreshers, Probing(q) PROVE ViewsInv'
  <2>1. view' = view /\ boots' = boots /\ edits' = edits
    BY <1>4 DEF Probing, StartRefresh, WriteIdentity, ProbeLost
  <2> QED
    BY <1>1, <2>1, ViewsStay
<1>5. ASSUME NEW v \in Views, Viewing(v) PROVE ViewsInv'
  BY <1>5, StartListKeeps, StartBaseKeeps, ReadTagsKeeps, MergeKeeps DEF Viewing
<1>6. CASE UNCHANGED srcVars
  BY <1>1, <1>6, ViewsStay DEF srcVars
<1> QED
  BY <1>2, <1>3, <1>4, <1>5, <1>6 DEF SrcNext

LEMMA ViewsInvHolds == SrcSpec => []ViewsInv
<1>1. SrcInit => ViewsInv
  <2> SUFFICES ASSUME SrcInit PROVE ViewsInv
    OBVIOUS
  <2>1. /\ \A v \in Views : view[v] = IdleView
        /\ view = [v \in Views |-> IdleView] /\ boots = 0 /\ edits = 0
    BY DEF SrcInit
  <2>2. IdleView \in View
    BY IdleViewOK DEF ViewOK
  <2> QED
    BY <2>1, <2>2, IdleViewOK, DataSourcesAssumption DEF ViewsInv
<1>2. TableOK /\ ViewsInv /\ [SrcNext]_srcVars => ViewsInv'
  BY ViewsNext
<1>3. SrcInv => TableOK
  BY DEF SrcInv
<1> QED
  BY <1>1, <1>2, <1>3, SrcInvHolds, PTL DEF SrcSpec

(* Rows, start-ups, probes and views of the sources are well typed. *)
THEOREM SrcTypeCorrect == SrcSpec => []SrcTypeOK
<1>1. SrcInv /\ ViewsInv => SrcTypeOK
  BY DEF SrcInv, TableOK, ViewsInv, SrcTypeOK
<1> QED
  BY <1>1, SrcInvHolds, ViewsInvHolds, PTL

LEMMA SeqLength ==
    ASSUME NEW s \in Seq(Entry), NEW t \in Seq(Entry), NEW i \in DOMAIN s, i \notin DOMAIN t
    PROVE  Len(t) < Len(s)
  OBVIOUS

(* Merged answers carry the tag of the source that gave them, but for base data whose list *)
(* of sources changed between its two reads.                                              *)
THEOREM TagsNameTheSource == SrcSpec => TagsAreTrue
<1>1. ASSUME ViewsInv, [SrcNext]_srcVars, NEW v \in Views,
             view[v].pc = "fetching", view'[v].pc = "done",
             NEW services, services = view[v].services, NEW tags, tags = view[v].tags,
             NEW items, items = view'[v].items
      PROVE  /\ \A item \in items : \E i \in DOMAIN services :
                   /\ item.key = services[i].key
                   /\ services = tags => item.tag = services[i].id
             /\ view[v].kind = "list" => services = tags
             /\ (\E item \in items : item.tag = UnknownSource) =>
                   view[v].kind = "base" /\ Len(tags) < Len(services)
  <2>1. Merge(v)
    <3>1. view'[v] # view[v]
      BY <1>1
    <3>2. \A w \in Views : w = v \/ ~Viewing(w)
      BY <1>1, <3>1 DEF ViewsInv, Viewing, StartList, StartBase, ReadTags, Merge
    <3>3. Viewing(v)
      BY <1>1, <3>1, <3>2 DEF SrcNext, Booting, BootCount, BootLookup, BootInsert, BootDies,
         Administering, CreateSource, EditSource, DeleteSource, TtlPasses,
         Probing, StartRefresh, WriteIdentity, ProbeLost, srcVars
    <3> QED
      BY <1>1, <3>3 DEF Viewing, StartList, StartBase, ReadTags
  <2>2. PICK answered \in SUBSET DOMAIN services : items = TaggedItems(services, tags, answered)
    <3>1. PICK answered \in SUBSET DOMAIN services :
             view' = [view EXCEPT ![v] = [IdleView EXCEPT !.pc = "done",
                !.items = TaggedItems(services, tags, answered)]]
      BY <1>1, <2>1 DEF Merge
    <3> QED
      BY <1>1, <3>1 DEF ViewsInv, IdleView
  <2>3. ViewOK(view[v])
    BY <1>1 DEF ViewsInv
  <2>4. /\ services \in Entries /\ tags \in Entries
        /\ view[v].kind \in {"list", "base"}
        /\ view[v].kind = "list" => services = tags
        /\ view[v].kind = "base" => services \in Seq(Entry) /\ tags \in Seq(Entry)
    BY <1>1, <2>3 DEF ViewOK, View
  <2>5. \A item \in items : \E i \in answered :
           item.key = services[i].key /\ item.tag = Tag(tags, i)
    BY <2>2 DEF TaggedItems
  <2>6. \A item \in items : \E i \in DOMAIN services :
           /\ item.key = services[i].key
           /\ services = tags => item.tag = services[i].id
    BY <2>4, <2>5, KnownTags
  <2>7. ASSUME NEW item \in items, item.tag = UnknownSource
        PROVE  view[v].kind = "base" /\ Len(tags) < Len(services)
    <3>1. PICK i \in DOMAIN services : item.tag = Tag(tags, i)
      BY <2>5
    <3>2. i \notin DOMAIN tags
      BY <2>4, <2>7, <3>1, KnownTags
    <3> QED
      BY <2>4, <3>1, <3>2, SeqLength
  <2> QED
    BY <2>4, <2>6, <2>7
<1>2. ViewsInv /\ [SrcNext]_srcVars =>
         [\A v \in Views : view[v].pc = "fetching" /\ view'[v].pc = "done" =>
             LET services == view[v].services  tags == view[v].tags  items == view'[v].items IN
             /\ \A item \in items : \E i \in DOMAIN services :
                   /\ item.key = services[i].key
                   /\ services = tags => item.tag = services[i].id
             /\ view[v].kind = "list" => services = tags
             /\ (\E item \in items : item.tag = UnknownSource) =>
                   view[v].kind = "base" /\ Len(tags) < Len(services)
         ]_srcVars
  BY <1>1
<1> QED
  BY <1>2, ViewsInvHolds, PTL DEF SrcSpec, TagsAreTrue

----------------------------------------------------------------------------
(* The shared connection.  The inductive invariant follows each row from   *)
(* its write to its end: a call at its commit is pending on the connection *)
(* it holds, stored by the commit of another call or spoiled (Accounted),  *)
(* and what is pending is neither stored nor spoiled (PendingHeld).        *)

Active == {"select", "write", "waits", "commit"}

Untouched ==
    \A c \in Calls : call[c].pc \notin {"commit", "returned", "raised"} =>
       c \notin stored /\ c \notin spoiled

PendingHeld ==
    \A s \in Servers : \A c \in pending[s] :
       /\ call[c].pc = "commit" /\ Mine(c) = s /\ Holds(c)
       /\ c \notin stored /\ c \notin spoiled

Accounted ==
    \A c \in Calls : call[c].pc = "commit" =>
       c \in pending[Mine(c)] \/ c \in stored \/ c \in spoiled

(* A call that stands at its commit when the connection goes is spoiled. *)
LostSpoils ==
    \A c \in Calls : call[c].pc = "commit" /\ ~(Holds(c) /\ link[Mine(c)].alive) => c \in spoiled

(* The call that waits keeps its connection, and no other call of it waits. *)
Waiting ==
    \A c \in Calls : call[c].pc = "waits" =>
       /\ Holds(c) /\ link[Mine(c)].alive
       /\ \A d \in Calls : call[d].pc = "waits" /\ Mine(d) = Mine(c) => d = c

Ids ==
    \A c \in Calls : call[c].pc \in Active =>
       Mine(c) \in Servers /\ call[c].id <= link[Mine(c)].id

NoFailureYet ==
    failures = 0 =>
       /\ \A s \in Servers : link[s].state = "closed" \/ link[s].alive
       /\ \A s \in Servers : link[s].state # "aborted"
       /\ \A c \in Calls : call[c].pc \in Active => Holds(c)

ConnInv ==
    /\ ConnTypeOK
    /\ Untouched /\ PendingHeld /\ Accounted /\ LostSpoils
    /\ Waiting /\ Ids /\ NoFailureYet

Pcs == {"idle", "select", "write", "waits", "commit", "read", "returned", "raised"}

States == {"closed", "idle", "open", "aborted"}

-----------------------------------------------------------------------------
(* Single fields of the two records *)
LEMMA MovedFacts ==
    ASSUME ConnTypeOK, NEW c \in Calls, NEW pc \in Pcs, Moved(c, pc)
    PROVE  /\ call' \in [Calls -> Call]
           /\ \A d \in Calls : call'[d].pc = IF d = c THEN pc ELSE call[d].pc
           /\ \A d \in Calls : call'[d].server = call[d].server
           /\ \A d \in Calls : call'[d].row = call[d].row
           /\ \A d \in Calls : call'[d].id = call[d].id
BY DEF ConnTypeOK, Moved, Call, Pcs

LEMMA LinkedFacts ==
    ASSUME ConnTypeOK, NEW s \in Servers, NEW state \in States, Linked(s, state)
    PROVE  /\ link' \in [Servers -> Link]
           /\ \A t \in Servers : link'[t].state = IF t = s THEN state ELSE link[t].state
           /\ \A t \in Servers : link'[t].id = link[t].id
           /\ \A t \in Servers : link'[t].alive = link[t].alive
BY DEF ConnTypeOK, Linked, Link, States

LEMMA ActiveServer ==
    ASSUME ConnInv, NEW c \in Calls, call[c].pc \in Active
    PROVE  Mine(c) \in Servers
BY DEF ConnInv, Ids

LEMMA ServerTypes ==
    ASSUME ConnTypeOK
    PROVE  /\ \A c \in Calls : call[c].id \in Nat /\ Mine(c) \in Servers \cup {NoServer}
           /\ \A s \in Servers : link[s].id \in Nat /\ link[s].state \in States
           /\ \A s \in Servers : pending[s] \subseteq Calls
BY DEF ConnTypeOK, Call, Link, Mine, States

LEMMA WriteKeeps ==
    ASSUME ConnInv, NEW c \in Calls, Write(c)
    PROVE  ConnInv'
<1>1. ConnTypeOK /\ call[c].pc \in Active
    BY DEF ConnInv, Write, Active
<1>2. Mine(c) \in Servers
    BY <1>1, ActiveServer
<1>3. /\ call' \in [Calls -> Call]
      /\ \A d \in Calls : call'[d].pc = IF d = c THEN "commit" ELSE call[d].pc
      /\ \A d \in Calls : call'[d].server = call[d].server
      /\ \A d \in Calls : call'[d].id = call[d].id
    BY <1>1, MovedFacts DEF Write, Written, Pcs
<1>4. /\ link' \in [Servers -> Link]
      /\ \A t \in Servers : link'[t].state = IF t = Mine(c) THEN "open" ELSE link[t].state
      /\ \A t \in Servers : link'[t].id = link[t].id
      /\ \A t \in Servers : link'[t].alive = link[t].alive
    BY <1>1, <1>2, LinkedFacts DEF Write, Written, States
<1>5. /\ \A d \in Calls : call[d].id \in Nat /\ Mine(d) \in Servers \cup {NoServer}
      /\ \A s \in Servers : link[s].id \in Nat /\ pending[s] \subseteq Calls
    BY <1>1, ServerTypes
<1>11. ConnTypeOK'
    BY <1>1, <1>2, <1>3, <1>4, <1>5, SharedConnectionAssumption DEF ConnInv, ConnTypeOK, Holds, Mine, Active, Write, Written, Answers, Busy
<1>12. Untouched'
    BY <1>1, <1>2, <1>3, <1>4, <1>5, SharedConnectionAssumption DEF ConnInv, ConnTypeOK, Untouched, PendingHeld, Holds, Mine, Active, Write, Written, Answers, Busy
<1>13. PendingHeld'
    BY <1>1, <1>2, <1>3, <1>4, <1>5, SharedConnectionAssumption DEF ConnInv, ConnTypeOK, Untouched, PendingHeld, LostSpoils, Waiting, Ids, Holds, Mine, Active, Write, Written, Answers, Busy
<1>14. Accounted'
    BY <1>1, <1>2, <1>3, <1>4, <1>5, SharedConnectionAssumption DEF ConnInv, ConnTypeOK, Accounted, Ids, Holds, Mine, Active, Write, Written, Answers, Busy
<1>15. LostSpoils'
    BY <1>1, <1>2, <1>3, <1>4, <1>5, SharedConnectionAssumption DEF ConnInv, ConnTypeOK, Untouched, PendingHeld, Accounted, LostSpoils, Waiting, Ids, Holds, Mine, Active, Write, Written, Answers, Busy
<1>16. Waiting'
    BY <1>1, <1>2, <1>3, <1>4, <1>5, SharedConnectionAssumption DEF ConnInv, ConnTypeOK, Waiting, Ids, Holds, Mine, Active, Write, Written, Answers, Busy
<1>17. Ids'
    BY <1>1, <1>2, <1>3, <1>4, <1>5, SharedConnectionAssumption DEF ConnInv, Ids, Holds, Mine, Active, Write, Written, Answers, Busy
<1>18. NoFailureYet'
    BY <1>1, <1>2, <1>3, <1>4, <1>5, SharedConnectionAssumption DEF ConnInv, ConnTypeOK, Ids, NoFailureYet, Holds, Mine, Active, Write, Written, Answers, Busy
<1>20. QED
    BY <1>11, <1>12, <1>13, <1>14, <1>15, <1>16, <1>17, <1>18 DEF ConnInv

LEMMA WaitForRowKeeps ==
    ASSUME ConnInv, NEW c \in Calls, WaitForRow(c)
    PROVE  ConnInv'
<1>1. ConnTypeOK /\ call[c].pc \in Active
    BY DEF ConnInv, WaitForRow, Active
<1>2. Mine(c) \in Servers
    BY <1>1, ActiveServer
<1>3. /\ call' \in [Calls -> Call]
      /\ \A d \in Calls : call'[d].pc = IF d = c THEN "waits" ELSE call[d].pc
      /\ \A d \in Calls : call'[d].server = call[d].server
      /\ \A d \in Calls : call'[d].id = call[d].id
    BY <1>1, MovedFacts DEF WaitForRow, Pcs
<1>4. /\ link' \in [Servers -> Link]
      /\ \A t \in Servers : link'[t].state = IF t = Mine(c) THEN "open" ELSE link[t].state
      /\ \A t \in Servers : link'[t].id = link[t].id
      /\ \A t \in Servers : link'[t].alive = link[t].alive
    BY <1>1, <1>2, LinkedFacts DEF WaitForRow, States
<1>5. /\ \A d \in Calls : call[d].id \in Nat /\ Mine(d) \in Servers \cup {NoServer}
      /\ \A s \in Servers : link[s].id \in Nat /\ pending[s] \subseteq Calls
    BY <1>1, ServerTypes
<1>6. \A d \in Calls : call[d].pc \in Active =>
         /\ Holds(d)' <=> Holds(d)
         /\ Mine(d)' = Mine(d)
         /\ link'[Mine(d)].alive = link[Mine(d)].alive
    BY <1>2, <1>3, <1>4 DEF ConnInv, Ids, Holds, Mine, WaitForRow, Answers
<1>11. ConnTypeOK'
    BY <1>1, <1>2, <1>3, <1>4, <1>5, SharedConnectionAssumption DEF ConnInv, ConnTypeOK, Holds, Mine, Active, WaitForRow, Answers, Busy
<1>12. Untouched'
    BY <1>1, <1>2, <1>3, <1>4, <1>5, SharedConnectionAssumption DEF ConnInv, ConnTypeOK, Untouched, PendingHeld, Holds, Mine, Active, WaitForRow, Answers, Busy
<1>13. PendingHeld'
    BY <1>1, <1>2, <1>3, <1>4, <1>5, SharedConnectionAssumption DEF ConnInv, ConnTypeOK, Untouched, PendingHeld, LostSpoils, Waiting, Ids, Holds, Mine, Active, WaitForRow, Answers, Busy
<1>14. Accounted'
    BY <1>1, <1>2, <1>3, <1>4, <1>5, SharedConnectionAssumption DEF ConnInv, ConnTypeOK, Accounted, Ids, Holds, Mine, Active, WaitForRow, Answers, Busy
<1>15. LostSpoils'
    BY <1>1, <1>2, <1>3, <1>4, <1>5, SharedConnectionAssumption DEF ConnInv, ConnTypeOK, Untouched, PendingHeld, Accounted, LostSpoils, Waiting, Ids, Holds, Mine, Active, WaitForRow, Answers, Busy
<1>16. Waiting'
    BY <1>1, <1>2, <1>3, <1>4, <1>5, SharedConnectionAssumption DEF ConnInv, ConnTypeOK, Waiting, Ids, Holds, Mine, Active, WaitForRow, Answers, Busy
<1>17. Ids'
    BY <1>1, <1>2, <1>3, <1>4, <1>5, SharedConnectionAssumption DEF ConnInv, Ids, Holds, Mine, Active, WaitForRow, Answers, Busy
<1>18. NoFailureYet'
    <2>1. \A d \in Calls : call'[d].pc \in Active => call[d].pc \in Active
        BY <1>1, <1>3
    <2>2. failures' = failures
        BY DEF WaitForRow
    <2>3. link[Mine(c)].alive
        BY DEF WaitForRow, Answers
    <2>4. QED
        BY <1>2, <1>4, <1>6, <2>1, <2>2, <2>3 DEF ConnInv, NoFailureYet
<1>20. QED
    BY <1>11, <1>12, <1>13, <1>14, <1>15, <1>16, <1>17, <1>18 DEF ConnInv

LEMMA GetRowKeeps ==
    ASSUME ConnInv, NEW c \in Calls, GetRow(c)
    PROVE  ConnInv'
<1>1. ConnTypeOK /\ call[c].pc \in Active
    BY DEF ConnInv, GetRow, Active
<1>2. Mine(c) \in Servers
    BY <1>1, ActiveServer
<1>3. /\ call' \in [Calls -> Call]
      /\ \A d \in Calls : call'[d].pc = IF d = c THEN "commit" ELSE call[d].pc
      /\ \A d \in Calls : call'[d].server = call[d].server
      /\ \A d \in Calls : call'[d].id = call[d].id
    BY <1>1, MovedFacts DEF GetRow, Written, Pcs
<1>4. link' = link
    BY DEF GetRow
<1>5. /\ \A d \in Calls : call[d].id \in Nat /\ Mine(d) \in Servers \cup {NoServer}
      /\ \A s \in Servers : link[s].id \in Nat /\ pending[s] \subseteq Calls
    BY <1>1, ServerTypes
<1>11. ConnTypeOK'
    BY <1>1, <1>2, <1>3, <1>4, <1>5, SharedConnectionAssumption DEF ConnInv, ConnTypeOK, Holds, Mine, Active, GetRow, Written, Answers, Busy
<1>12. Untouched'
    BY <1>1, <1>2, <1>3, <1>4, <1>5, SharedConnectionAssumption DEF ConnInv, ConnTypeOK, Untouched, PendingHeld, Holds, Mine, Active, GetRow, Written, Answers, Busy
<1>13. PendingHeld'
    BY <1>1, <1>2, <1>3, <1>4, <1>5, SharedConnectionAssumption DEF ConnInv, ConnTypeOK, Untouched, PendingHeld, LostSpoils, Waiting, Ids, Holds, Mine, Active, GetRow, Written, Answers, Busy
<1>14. Accounted'
    BY <1>1, <1>2, <1>3, <1>4, <1>5, SharedConnectionAssumption DEF ConnInv, ConnTypeOK, Accounted, Ids, Holds, Mine, Active, GetRow, Written, Answers, Busy
<1>15. LostSpoils'
    BY <1>1, <1>2, <1>3, <1>4, <1>5, SharedConnectionAssumption DEF ConnInv, ConnTypeOK, Untouched, PendingHeld, Accounted, LostSpoils, Waiting, Ids, Holds, Mine, Active, GetRow, Written, Answers, Busy
<1>16. Waiting'
    BY <1>1, <1>2, <1>3, <1>4, <1>5, SharedConnectionAssumption DEF ConnInv, ConnTypeOK, Waiting, Ids, Holds, Mine, Active, GetRow, Written, Answers, Busy
<1>17. Ids'
    BY <1>1, <1>2, <1>3, <1>4, <1>5, SharedConnectionAssumption DEF ConnInv, Ids, Holds, Mine, Active, GetRow, Written, Answers, Busy
<1>18. NoFailureYet'
    BY <1>1, <1>2, <1>3, <1>4, <1>5, SharedConnectionAssumption DEF ConnInv, ConnTypeOK, Ids, NoFailureYet, Holds, Mine, Active, GetRow, Written, Answers, Busy
<1>20. QED
    BY <1>11, <1>12, <1>13, <1>14, <1>15, <1>16, <1>17, <1>18 DEF ConnInv

LEMMA CommitKeeps ==
    ASSUME ConnInv, NEW c \in Calls, Commit(c)
    PROVE  ConnInv'
<1>1. ConnTypeOK /\ call[c].pc \in Active
    BY DEF ConnInv, Commit, Active
<1>2. Mine(c) \in Servers
    BY <1>1, ActiveServer
<1>3. /\ call' \in [Calls -> Call]
      /\ \A d \in Calls : call'[d].pc = IF d = c THEN "returned" ELSE call[d].pc
      /\ \A d \in Calls : call'[d].server = call[d].server
      /\ \A d \in Calls : call'[d].id = call[d].id
    BY <1>1, MovedFacts DEF Commit, Pcs
<1>4. /\ link' \in [Servers -> Link]
      /\ \A t \in Servers : link'[t].state = IF t = Mine(c) THEN "idle" ELSE link[t].state
      /\ \A t \in Servers : link'[t].id = link[t].id
      /\ \A t \in Servers : link'[t].alive = link[t].alive
    BY <1>1, <1>2, LinkedFacts DEF Commit, States
<1>5. /\ \A d \in Calls : call[d].id \in Nat /\ Mine(d) \in Servers \cup {NoServer}
      /\ \A s \in Servers : link[s].id \in Nat /\ pending[s] \subseteq Calls
    BY <1>1, ServerTypes
<1>11. ConnTypeOK'
    BY <1>1, <1>2, <1>3, <1>4, <1>5, SharedConnectionAssumption DEF ConnInv, ConnTypeOK, Holds, Mine, Active, Commit, Answers, Busy
<1>12. Untouched'
    BY <1>1, <1>2, <1>3, <1>4, <1>5, SharedConnectionAssumption DEF ConnInv, ConnTypeOK, Untouched, PendingHeld, Holds, Mine, Active, Commit, Answers, Busy
<1>13. PendingHeld'
    BY <1>1, <1>2, <1>3, <1>4, <1>5, SharedConnectionAssumption DEF ConnInv, ConnTypeOK, Untouched, PendingHeld, LostSpoils, Waiting, Ids, Holds, Mine, Active, Commit, Answers, Busy
<1>14. Accounted'
    BY <1>1, <1>2, <1>3, <1>4, <1>5, SharedConnectionAssumption DEF ConnInv, ConnTypeOK, Accounted, Ids, Holds, Mine, Active, Commit, Answers, Busy
<1>15. LostSpoils'
    BY <1>1, <1>2, <1>3, <1>4, <1>5, SharedConnectionAssumption DEF ConnInv, ConnTypeOK, Untouched, PendingHeld, Accounted, LostSpoils, Waiting, Ids, Holds, Mine, Active, Commit, Answers, Busy
<1>16. Waiting'
    BY <1>1, <1>2, <1>3, <1>4, <1>5, SharedConnectionAssumption DEF ConnInv, ConnTypeOK, Waiting, Ids, Holds, Mine, Active, Commit, Answers, Busy
<1>17. Ids'
    BY <1>1, <1>2, <1>3, <1>4, <1>5, SharedConnectionAssumption DEF ConnInv, Ids, Holds, Mine, Active, Commit, Answers, Busy
<1>18. NoFailureYet'
    BY <1>1, <1>2, <1>3, <1>4, <1>5, SharedConnectionAssumption DEF ConnInv, ConnTypeOK, Ids, NoFailureYet, Holds, Mine, Active, Commit, Answers, Busy
<1>20. QED
    BY <1>11, <1>12, <1>13, <1>14, <1>15, <1>16, <1>17, <1>18 DEF ConnInv

LEMMA RejectedKeeps ==
    ASSUME ConnInv, NEW c \in Calls, Rejected(c)
    PROVE  ConnInv'
<1>1. ConnTypeOK /\ call[c].pc \in Active
    BY DEF ConnInv, Rejected, Active
<1>2. Mine(c) \in Servers
    BY <1>1, ActiveServer
<1>3. /\ call' \in [Calls -> Call]
      /\ \A d \in Calls : call'[d].pc = IF d = c THEN "raised" ELSE call[d].pc
      /\ \A d \in Calls : call'[d].server = call[d].server
      /\ \A d \in Calls : call'[d].id = call[d].id
    BY <1>1, MovedFacts DEF Rejected, Pcs
<1>4. link' = link
    BY DEF Rejected
<1>5. /\ \A d \in Calls : call[d].id \in Nat /\ Mine(d) \in Servers \cup {NoServer}
      /\ \A s \in Servers : link[s].id \in Nat /\ pending[s] \subseteq Calls
    BY <1>1, ServerTypes
<1>11. ConnTypeOK'
    BY <1>1, <1>2, <1>3, <1>4, <1>5, SharedConnectionAssumption DEF ConnInv, ConnTypeOK, Holds, Mine, Active, Rejected, Answers, Busy
<1>12. Untouched'
    BY <1>1, <1>2, <1>3, <1>4, <1>5, SharedConnectionAssumption DEF ConnInv, ConnTypeOK, Untouched, PendingHeld, Holds, Mine, Active, Rejected, Answers, Busy
<1>13. PendingHeld'
    BY <1>1, <1>2, <1>3, <1>4, <1>5, SharedConnectionAssumption DEF ConnInv, ConnTypeOK, Untouched, PendingHeld, LostSpoils, Waiting, Ids, Holds, Mine, Active, Rejected, Answers, Busy
<1>14. Accounted'
    BY <1>1, <1>2, <1>3, <1>4, <1>5, SharedConnectionAssumption DEF ConnInv, ConnTypeOK, Accounted, Ids, Holds, Mine, Active, Rejected, Answers, Busy
<1>15. LostSpoils'
    BY <1>1, <1>2, <1>3, <1>4, <1>5, SharedConnectionAssumption DEF ConnInv, ConnTypeOK, Untouched, PendingHeld, Accounted, LostSpoils, Waiting, Ids, Holds, Mine, Active, Rejected, Answers, Busy
<1>16. Waiting'
    BY <1>1, <1>2, <1>3, <1>4, <1>5, SharedConnectionAssumption DEF ConnInv, ConnTypeOK, Waiting, Ids, Holds, Mine, Active, Rejected, Answers, Busy
<1>17. Ids'
    BY <1>1, <1>2, <1>3, <1>4, <1>5, SharedConnectionAssumption DEF ConnInv, Ids, Holds, Mine, Active, Rejected, Answers, Busy
<1>18. NoFailureYet'
    BY <1>1, <1>2, <1>3, <1>4, <1>5, SharedConnectionAssumption DEF ConnInv, ConnTypeOK, Ids, NoFailureYet, Holds, Mine, Active, Rejected, Answers, Busy
<1>20. QED
    BY <1>11, <1>12, <1>13, <1>14, <1>15, <1>16, <1>17, <1>18 DEF ConnInv

LEMMA FindsLostKeeps ==
    ASSUME ConnInv, NEW c \in Calls, FindsLost(c)
    PROVE  ConnInv'
<1>1. ConnTypeOK /\ call[c].pc \in Active
    BY DEF ConnInv, FindsLost, Active
<1>2. Mine(c) \in Servers
    BY <1>1, ActiveServer
<1>3. /\ call' \in [Calls -> Call]
      /\ \A d \in Calls : call'[d].pc = IF d = c THEN "raised" ELSE call[d].pc
      /\ \A d \in Calls : call'[d].server = call[d].server
      /\ \A d \in Calls : call'[d].id = call[d].id
    BY <1>1, MovedFacts DEF FindsLost, Pcs
<1>4. /\ link' \in [Servers -> Link]
      /\ \A t \in Servers : link'[t].state = IF t = Mine(c) THEN "closed" ELSE link[t].state
      /\ \A t \in Servers : link'[t].id = link[t].id
      /\ \A t \in Servers : link'[t].alive = link[t].alive
    BY <1>1, <1>2, LinkedFacts DEF FindsLost, States
<1>5. /\ \A d \in Calls : call[d].id \in Nat /\ Mine(d) \in Servers \cup {NoServer}
      /\ \A s \in Servers : link[s].id \in Nat /\ pending[s] \subseteq Calls
    BY <1>1, ServerTypes
<1>11. ConnTypeOK'
    BY <1>1, <1>2, <1>3, <1>4, <1>5, SharedConnectionAssumption DEF ConnInv, ConnTypeOK, Holds, Mine, Active, FindsLost, Answers, Busy
<1>12. Untouched'
    BY <1>1, <1>2, <1>3, <1>4, <1>5, SharedConnectionAssumption DEF ConnInv, ConnTypeOK, Untouched, PendingHeld, Holds, Mine, Active, FindsLost, Answers, Busy
<1>13. PendingHeld'
    BY <1>1, <1>2, <1>3, <1>4, <1>5, SharedConnectionAssumption DEF ConnInv, ConnTypeOK, Untouched, PendingHeld, LostSpoils, Waiting, Ids, Holds, Mine, Active, FindsLost, Answers, Busy
<1>14. Accounted'
    BY <1>1, <1>2, <1>3, <1>4, <1>5, SharedConnectionAssumption DEF ConnInv, ConnTypeOK, Accounted, Ids, Holds, Mine, Active, FindsLost, Answers, Busy
<1>15. LostSpoils'
    BY <1>1, <1>2, <1>3, <1>4, <1>5, SharedConnectionAssumption DEF ConnInv, ConnTypeOK, Untouched, PendingHeld, Accounted, LostSpoils, Waiting, Ids, Holds, Mine, Active, FindsLost, Answers, Busy
<1>16. Waiting'
    BY <1>1, <1>2, <1>3, <1>4, <1>5, SharedConnectionAssumption DEF ConnInv, ConnTypeOK, Waiting, Ids, Holds, Mine, Active, FindsLost, Answers, Busy
<1>17. Ids'
    BY <1>1, <1>2, <1>3, <1>4, <1>5, SharedConnectionAssumption DEF ConnInv, Ids, Holds, Mine, Active, FindsLost, Answers, Busy
<1>18. NoFailureYet'
    BY <1>1, <1>2, <1>3, <1>4, <1>5, SharedConnectionAssumption DEF ConnInv, ConnTypeOK, Ids, NoFailureYet, Holds, Mine, Active, FindsLost, Answers, Busy
<1>20. QED
    BY <1>11, <1>12, <1>13, <1>14, <1>15, <1>16, <1>17, <1>18 DEF ConnInv

LEMMA FindsClosedKeeps ==
    ASSUME ConnInv, NEW c \in Calls, FindsClosed(c)
    PROVE  ConnInv'
<1>1. ConnTypeOK /\ call[c].pc \in Active
    BY DEF ConnInv, FindsClosed, Active
<1>2. Mine(c) \in Servers
    BY <1>1, ActiveServer
<1>3. /\ call' \in [Calls -> Call]
      /\ \A d \in Calls : call'[d].pc = IF d = c THEN "raised" ELSE call[d].pc
      /\ \A d \in Calls : call'[d].server = call[d].server
      /\ \A d \in Calls : call'[d].id = call[d].id
    BY <1>1, MovedFacts DEF FindsClosed, Pcs
<1>4. link' = link
    BY DEF FindsClosed
<1>5. /\ \A d \in Calls : call[d].id \in Nat /\ Mine(d) \in Servers \cup {NoServer}
      /\ \A s \in Servers : link[s].id \in Nat /\ pending[s] \subseteq Calls
    BY <1>1, ServerTypes
<1>11. ConnTypeOK'
    BY <1>1, <1>2, <1>3, <1>4, <1>5, SharedConnectionAssumption DEF ConnInv, ConnTypeOK, Holds, Mine, Active, FindsClosed, Answers, Busy
<1>12. Untouched'
    BY <1>1, <1>2, <1>3, <1>4, <1>5, SharedConnectionAssumption DEF ConnInv, ConnTypeOK, Untouched, PendingHeld, Holds, Mine, Active, FindsClosed, Answers, Busy
<1>13. PendingHeld'
    BY <1>1, <1>2, <1>3, <1>4, <1>5, SharedConnectionAssumption DEF ConnInv, ConnTypeOK, Untouched, PendingHeld, LostSpoils, Waiting, Ids, Holds, Mine, Active, FindsClosed, Answers, Busy
<1>14. Accounted'
    BY <1>1, <1>2, <1>3, <1>4, <1>5, SharedConnectionAssumption DEF ConnInv, ConnTypeOK, Accounted, Ids, Holds, Mine, Active, FindsClosed, Answers, Busy
<1>15. LostSpoils'
    BY <1>1, <1>2, <1>3, <1>4, <1>5, SharedConnectionAssumption DEF ConnInv, ConnTypeOK, Untouched, PendingHeld, Accounted, LostSpoils, Waiting, Ids, Holds, Mine, Active, FindsClosed, Answers, Busy
<1>16. Waiting'
    BY <1>1, <1>2, <1>3, <1>4, <1>5, SharedConnectionAssumption DEF ConnInv, ConnTypeOK, Waiting, Ids, Holds, Mine, Active, FindsClosed, Answers, Busy
<1>17. Ids'
    BY <1>1, <1>2, <1>3, <1>4, <1>5, SharedConnectionAssumption DEF ConnInv, Ids, Holds, Mine, Active, FindsClosed, Answers, Busy
<1>18. NoFailureYet'
    BY <1>1, <1>2, <1>3, <1>4, <1>5, SharedConnectionAssumption DEF ConnInv, ConnTypeOK, Ids, NoFailureYet, Holds, Mine, Active, FindsClosed, Answers, Busy
<1>20. QED
    BY <1>11, <1>12, <1>13, <1>14, <1>15, <1>16, <1>17, <1>18 DEF ConnInv

LEMMA SelectKeeps ==
    ASSUME ConnInv, NEW c \in Calls, Select(c)
    PROVE  ConnInv'
<1>0. PICK pc \in {"read", "write"} : Moved(c, pc)
    BY DEF Select
<1>1. ConnTypeOK /\ call[c].pc \in Active
    BY DEF ConnInv, Select, Active
<1>2. Mine(c) \in Servers
    BY <1>1, ActiveServer
<1>3. /\ call' \in [Calls -> Call]
      /\ \A d \in Calls : call'[d].pc = IF d = c THEN pc ELSE call[d].pc
      /\ \A d \in Calls : call'[d].server = call[d].server
      /\ \A d \in Calls : call'[d].id = call[d].id
    BY <1>0, <1>1, MovedFacts DEF Pcs
<1>4. /\ link' \in [Servers -> Link]
      /\ \A t \in Servers : link'[t].state = IF t = Mine(c) THEN "open" ELSE link[t].state
      /\ \A t \in Servers : link'[t].id = link[t].id
      /\ \A t \in Servers : link'[t].alive = link[t].alive
    BY <1>1, <1>2, LinkedFacts DEF Select, States
<1>5. /\ \A d \in Calls : call[d].id \in Nat /\ Mine(d) \in Servers \cup {NoServer}
      /\ \A t \in Servers : link[t].id \in Nat /\ pending[t] \subseteq Calls
    BY <1>1, ServerTypes
<1>6. \A d \in Calls : call[d].pc \in Active =>
         /\ Holds(d)' <=> Holds(d)
         /\ Mine(d)' = Mine(d)
         /\ link'[Mine(d)].alive = link[Mine(d)].alive
    BY <1>2, <1>3, <1>4 DEF ConnInv, Ids, Holds, Mine, Select, Answers
<1>11. ConnTypeOK'
    BY <1>0, <1>1, <1>2, <1>3, <1>4, <1>5, SharedConnectionAssumption DEF ConnInv, ConnTypeOK, Holds, Mine, Active, Select, Answers, Busy
<1>12. Untouched'
    BY <1>0, <1>1, <1>2, <1>3, <1>4, <1>5, SharedConnectionAssumption DEF ConnInv, ConnTypeOK, Untouched, PendingHeld, Holds, Mine, Active, Select, Answers, Busy
<1>13. PendingHeld'
    BY <1>0, <1>1, <1>2, <1>3, <1>4, <1>5, SharedConnectionAssumption DEF ConnInv, ConnTypeOK, Untouched, PendingHeld, LostSpoils, Waiting, Ids, Holds, Mine, Active, Select, Answers, Busy
<1>14. Accounted'
    BY <1>0, <1>1, <1>2, <1>3, <1>4, <1>5, SharedConnectionAssumption DEF ConnInv, ConnTypeOK, Accounted, Ids, Holds, Mine, Active, Select, Answers, Busy
<1>15. LostSpoils'
    BY <1>0, <1>1, <1>3, <1>4, <1>6 DEF ConnInv, LostSpoils, Select, Active, Mine
<1>16. Waiting'
    BY <1>0, <1>1, <1>2, <1>3, <1>4, <1>5, SharedConnectionAssumption DEF ConnInv, ConnTypeOK, Waiting, Ids, Holds, Mine, Active, Select, Answers, Busy
<1>17. Ids'
    BY <1>0, <1>1, <1>2, <1>3, <1>4, <1>5, SharedConnectionAssumption DEF ConnInv, Ids, Holds, Mine, Active, Select, Answers, Busy
<1>18. NoFailureYet'
    BY <1>0, <1>1, <1>2, <1>3, <1>4, <1>5, SharedConnectionAssumption DEF ConnInv, ConnTypeOK, Ids, NoFailureYet, Holds, Mine, Active, Select, Answers, Busy
<1>20. QED
    BY <1>11, <1>12, <1>13, <1>14, <1>15, <1>16, <1>17, <1>18 DEF ConnInv

(* Both kinds of failed statements *)
LEMMA AbortKeeps ==
    ASSUME ConnInv, NEW c \in Calls, Abort(c),
           call[c].pc \in {"select", "write", "waits"}, Holds(c), link[Mine(c)].alive
    PROVE  ConnInv'
<1>1. ConnTypeOK /\ call[c].pc \in Active
    BY DEF ConnInv, Active
<1>2. Mine(c) \in Servers
    BY <1>1, ActiveServer
<1>3. /\ call' \in [Calls -> Call]
      /\ \A d \in Calls : call'[d].pc = IF d = c THEN "raised" ELSE call[d].pc
      /\ \A d \in Calls : call'[d].server = call[d].server
      /\ \A d \in Calls : call'[d].id = call[d].id
    BY <1>1, MovedFacts DEF Abort, Pcs
<1>4. /\ link' \in [Servers -> Link]
      /\ \A t \in Servers : link'[t].state = IF t = Mine(c) THEN "aborted" ELSE link[t].state
      /\ \A t \in Servers : link'[t].id = link[t].id
      /\ \A t \in Servers : link'[t].alive = link[t].alive
    BY <1>1, <1>2, LinkedFacts DEF Abort, States
<1>5. /\ \A d \in Calls : call[d].id \in Nat /\ Mine(d) \in Servers \cup {NoServer}
      /\ \A t \in Servers : link[t].id \in Nat /\ pending[t] \subseteq Calls
    BY <1>1, ServerTypes
<1>6. \A d \in Calls : call[d].pc \in Active =>
         /\ Holds(d)' <=> Holds(d)
         /\ Mine(d)' = Mine(d)
         /\ link'[Mine(d)].alive = link[Mine(d)].alive
    BY <1>2, <1>3, <1>4 DEF ConnInv, Ids, Holds, Mine
<1>11. ConnTypeOK'
    BY <1>1, <1>2, <1>3, <1>4, <1>5, SharedConnectionAssumption DEF ConnInv, ConnTypeOK, Holds, Mine, Active, Abort
<1>12. Untouched'
    BY <1>1, <1>2, <1>3, <1>4, <1>5, SharedConnectionAssumption DEF ConnInv, ConnTypeOK, Untouched, PendingHeld, Holds, Mine, Active, Abort
<1>13. PendingHeld'
    BY <1>1, <1>2, <1>3, <1>4, <1>5, SharedConnectionAssumption DEF ConnInv, ConnTypeOK, Untouched, PendingHeld, LostSpoils, Waiting, Ids, Holds, Mine, Active, Abort
<1>14. Accounted'
    BY <1>1, <1>2, <1>3, <1>4, <1>5, SharedConnectionAssumption DEF ConnInv, ConnTypeOK, Accounted, Ids, Holds, Mine, Active, Abort
<1>15. LostSpoils'
    BY <1>1, <1>3, <1>4, <1>6 DEF ConnInv, LostSpoils, Abort, Active, Mine
<1>16. Waiting'
    BY <1>1, <1>3, <1>4, <1>6 DEF ConnInv, Waiting, Active, Mine
<1>17. Ids'
    BY <1>1, <1>2, <1>3, <1>4, <1>5, SharedConnectionAssumption DEF ConnInv, Ids, Holds, Mine, Active, Abort
<1>18. NoFailureYet'
    BY <1>1, <1>2, <1>3, <1>4, <1>5, SharedConnectionAssumption DEF ConnInv, ConnTypeOK, Ids, NoFailureYet, Holds, Mine, Active, Abort
<1>20. QED
    BY <1>11, <1>12, <1>13, <1>14, <1>15, <1>16, <1>17, <1>18 DEF ConnInv

LEMMA StatementFailsKeeps ==
    ASSUME ConnInv, NEW c \in Calls, StatementFails(c)
    PROVE  ConnInv'
BY AbortKeeps DEF StatementFails, Answers, ConnInv, Waiting

LEMMA DeadlockedKeeps ==
    ASSUME ConnInv, NEW c \in Calls, Deadlocked(c)
    PROVE  ConnInv'
BY AbortKeeps DEF Deadlocked, ConnInv, Waiting

LEMMA ConnectKeeps ==
    ASSUME ConnInv, NEW c \in Calls, NEW s \in Servers, NEW row \in Rows,
           NEW first \in {"select", "write"}, Connect(c, s, row, first)
    PROVE  ConnInv'
<1> DEFINE new == IF link[s].state = "closed"
                  THEN [id |-> link[s].id + 1, state |-> "idle", alive |-> TRUE]
                  ELSE link[s]
<1>1. ConnTypeOK /\ call[c].pc = "idle"
    BY DEF ConnInv, Connect
<1>2. /\ new \in Link /\ link[s].id \in Nat /\ link[s].id <= new.id
      /\ new.state # "closed"
      /\ link[s].state = "closed" => new.id > link[s].id /\ new.alive /\ new.state = "idle"
      /\ link[s].state # "closed" => new = link[s]
    BY <1>1 DEF ConnTypeOK, Link
<1>3. /\ call' \in [Calls -> Call]
      /\ \A d \in Calls \ {c} : call'[d] = call[d]
      /\ call'[c].pc = first /\ call'[c].server = s /\ call'[c].id = new.id
    BY <1>1, <1>2 DEF Connect, ConnTypeOK, Call
<1>4. /\ link' \in [Servers -> Link]
      /\ \A t \in Servers : link'[t] = IF t = s THEN new ELSE link[t]
    BY <1>1, <1>2 DEF Connect, ConnTypeOK
<1> HIDE DEF new
<1>5. /\ \A d \in Calls : call[d].id \in Nat /\ Mine(d) \in Servers \cup {NoServer}
      /\ \A t \in Servers : link[t].id \in Nat /\ pending[t] \subseteq Calls
    BY <1>1, ServerTypes
<1>11. ConnTypeOK'
    BY <1>1, <1>2, <1>3, <1>4, <1>5, SharedConnectionAssumption DEF ConnInv, ConnTypeOK, Holds, Mine, Active, Connect
<1>12. Untouched'
    BY <1>1, <1>2, <1>3, <1>4, <1>5, SharedConnectionAssumption DEF ConnInv, ConnTypeOK, Untouched, PendingHeld, Holds, Mine, Active, Connect
<1>13. PendingHeld'
    BY <1>1, <1>2, <1>3, <1>4, <1>5, SharedConnectionAssumption DEF ConnInv, ConnTypeOK, Untouched, PendingHeld, LostSpoils, Waiting, Ids, Holds, Mine, Active, Connect
<1>14. Accounted'
    BY <1>1, <1>2, <1>3, <1>4, <1>5, SharedConnectionAssumption DEF ConnInv, ConnTypeOK, Accounted, Ids, Holds, Mine, Active, Connect
<1>15. LostSpoils'
    BY <1>1, <1>2, <1>3, <1>4, <1>5, SharedConnectionAssumption DEF ConnInv, ConnTypeOK, Untouched, PendingHeld, Accounted, LostSpoils, Waiting, Ids, Holds, Mine, Active, Connect
<1>16. Waiting'
    BY <1>1, <1>2, <1>3, <1>4, <1>5, SharedConnectionAssumption DEF ConnInv, ConnTypeOK, Waiting, Ids, Holds, Mine, Active, Connect
<1>17. Ids'
    BY <1>1, <1>2, <1>3, <1>4, <1>5, SharedConnectionAssumption DEF ConnInv, Ids, Holds, Mine, Active, Connect
<1>18. NoFailureYet'
    BY <1>1, <1>2, <1>3, <1>4, <1>5, SharedConnectionAssumption DEF ConnInv, ConnTypeOK, Ids, NoFailureYet, Holds, Mine, Active, Connect
<1>20. QED
    BY <1>11, <1>12, <1>13, <1>14, <1>15, <1>16, <1>17, <1>18 DEF ConnInv

LEMMA ConnectionLostKeeps ==
    ASSUME ConnInv, NEW s \in Servers, ConnectionLost(s)
    PROVE  ConnInv'
<1> DEFINE at(pc) == {c \in Calls : call[c].pc = pc /\ Mine(c) = s /\ Holds(c)}
<1>1. ConnTypeOK
    BY DEF ConnInv
<1>2. /\ failures' = failures + 1 /\ spoiled' = spoiled \cup at("commit")
      /\ stored' \in {stored} \cup {stored \cup pending[s]}
      /\ pending' = [pending EXCEPT ![s] = {}]
    BY DEF ConnectionLost
<1>3. /\ call' \in [Calls -> Call]
      /\ \A d \in Calls : call'[d].pc = IF d \in at("waits") THEN "raised" ELSE call[d].pc
      /\ \A d \in Calls : call'[d].server = call[d].server
      /\ \A d \in Calls : call'[d].id = call[d].id
    <2>1. \A d \in Calls : call'[d] = IF d \in at("waits") THEN [call[d] EXCEPT !.pc = "raised"] ELSE call[d]
        BY DEF ConnectionLost
    <2>2. call' = [d \in Calls |-> call'[d]]
        BY DEF ConnectionLost
    <2>3. \A d \in Calls : call[d] \in Call
        BY <1>1 DEF ConnTypeOK
    <2>4. \A d \in Calls :
             /\ call'[d] \in Call
             /\ call'[d].pc = IF d \in at("waits") THEN "raised" ELSE call[d].pc
             /\ call'[d].server = call[d].server /\ call'[d].id = call[d].id
        BY <2>1, <2>3 DEF Call
    <2>5. QED
        BY <2>2, <2>4
<1>4. /\ link' \in [Servers -> Link]
      /\ \A t \in Servers : link'[t].id = link[t].id
      /\ \A t \in Servers : link'[t].alive = IF t = s THEN FALSE ELSE link[t].alive
      /\ \A t \in Servers : link'[t].state =
            IF t = s THEN (IF Busy(s) THEN "closed" ELSE link[s].state) ELSE link[t].state
    <2> DEFINE k == IF Busy(s) THEN "closed" ELSE link[s].state
    <2>1. link' = [link EXCEPT ![s].alive = FALSE, ![s].state = k]
        BY <1>1 DEF ConnectionLost, ConnTypeOK, Link
    <2>2. k \in States
        BY <1>1, ServerTypes DEF States
    <2> HIDE DEF k
    <2>3. /\ link' \in [Servers -> Link]
          /\ \A t \in Servers : link'[t].id = link[t].id
          /\ \A t \in Servers : link'[t].alive = IF t = s THEN FALSE ELSE link[t].alive
          /\ \A t \in Servers : link'[t].state = IF t = s THEN k ELSE link[t].state
        BY <1>1, <2>1, <2>2 DEF ConnTypeOK, Link, States
    <2>4. QED
        BY <2>3 DEF k
<1>5. /\ \A d \in Calls : call[d].id \in Nat /\ Mine(d) \in Servers \cup {NoServer}
      /\ \A t \in Servers : link[t].id \in Nat /\ pending[t] \subseteq Calls
    BY <1>1, ServerTypes
<1>6. \A d \in Calls : call[d].pc \in Active =>
         /\ Holds(d)' <=> Holds(d) /\ ~(Mine(d) = s /\ Busy(s))
         /\ Mine(d)' = Mine(d)
         /\ link'[Mine(d)].alive = IF Mine(d) = s THEN FALSE ELSE link[Mine(d)].alive
    <2> SUFFICES ASSUME NEW d \in Calls, call[d].pc \in Active
                 PROVE  /\ Holds(d)' <=> Holds(d) /\ ~(Mine(d) = s /\ Busy(s))
                        /\ Mine(d)' = Mine(d)
                        /\ link'[Mine(d)].alive =
                              IF Mine(d) = s THEN FALSE ELSE link[Mine(d)].alive
        OBVIOUS
    <2>1. Mine(d) \in Servers /\ Mine(d)' = Mine(d)
        BY <1>3, ActiveServer DEF Mine
    <2>2. Holds(d)' <=> /\ link'[Mine(d)].id = call'[d].id
                        /\ link'[Mine(d)].state # "closed"
        BY <2>1 DEF Holds
    <2>3. link'[Mine(d)].id = link[Mine(d)].id /\ call'[d].id = call[d].id
        BY <1>3, <1>4, <2>1
    <2>4. link'[Mine(d)].state # "closed" <=>
            link[Mine(d)].state # "closed" /\ ~(Mine(d) = s /\ Busy(s))
        BY <1>4, <2>1
    <2>5. QED
        BY <1>4, <2>1, <2>2, <2>3, <2>4 DEF Holds
<1>7. \A d \in Calls : call'[d].pc = "commit" <=> call[d].pc = "commit"
    BY <1>3
<1>8. \A d \in Calls : call'[d].pc = "waits" => call[d].pc = "waits" /\ Mine(d) # s
    BY <1>3 DEF ConnInv, Waiting
<1> HIDE DEF at
<1>9. at("commit") \subseteq Calls /\ \A d \in Calls : d \in at("commit") <=>
         call[d].pc = "commit" /\ Mine(d) = s /\ Holds(d)
    BY DEF at
<1>11. ConnTypeOK'
    <2>1. pending' \in [Servers -> SUBSET Calls] /\ stored' \subseteq Calls
        BY <1>1, <1>2, <1>5 DEF ConnTypeOK
    <2>2. spoiled' \subseteq Calls /\ failures' \in Nat
        BY <1>1, <1>2, <1>9 DEF ConnTypeOK
    <2>3. QED
        BY <1>3, <1>4, <2>1, <2>2 DEF ConnTypeOK
<1>12. Untouched'
    BY <1>2, <1>3, <1>9 DEF ConnInv, Untouched, PendingHeld
<1>13. PendingHeld'
    <2>1. \A t \in Servers : pending'[t] = IF t = s THEN {} ELSE pending[t]
        BY <1>1, <1>2 DEF ConnTypeOK
    <2> SUFFICES ASSUME NEW t \in Servers, NEW c \in pending'[t]
                 PROVE  /\ call'[c].pc = "commit" /\ Mine(c)' = t /\ Holds(c)'
                        /\ c \notin stored' /\ c \notin spoiled'
        BY DEF PendingHeld
    <2>2. t # s /\ c \in pending[t] /\ c \in Calls
        BY <1>5, <2>1
    <2>3. /\ call[c].pc = "commit" /\ Mine(c) = t /\ Holds(c)
          /\ c \notin stored /\ c \notin spoiled
        BY <2>2 DEF ConnInv, PendingHeld
    <2>4. c \notin pending[s]
        BY <2>2, <2>3 DEF ConnInv, PendingHeld
    <2>5. QED
        BY <1>2, <1>6, <1>7, <1>9, <2>2, <2>3, <2>4 DEF Active
<1>14. Accounted'
    <2>1. \A d \in Calls : call[d].pc = "commit" /\ d \in pending[s] => d \in spoiled'
        BY <1>2, <1>9 DEF ConnInv, PendingHeld
    <2>2. \A t \in Servers \ {s} : pending'[t] = pending[t]
        BY <1>1, <1>2 DEF ConnTypeOK
    <2>3. QED
        BY <1>2, <1>6, <1>7, <2>1, <2>2 DEF ConnInv, Accounted, Ids, Active
<1>15. LostSpoils'
    BY <1>2, <1>6, <1>7, <1>9 DEF ConnInv, LostSpoils, Active, Mine
<1>16. Waiting'
    BY <1>6, <1>8 DEF ConnInv, Waiting, Active, Mine
<1>17. Ids'
    BY <1>1, <1>2, <1>3, <1>4, <1>5, SharedConnectionAssumption DEF ConnInv, Ids, Holds, Mine, Active, Busy
<1>18. NoFailureYet'
    BY <1>1, <1>2 DEF ConnTypeOK, NoFailureYet
<1>20. QED
    BY <1>11, <1>12, <1>13, <1>14, <1>15, <1>16, <1>17, <1>18 DEF ConnInv

LEMMA ConnInvInit == ConnInit => ConnInv
<1> SUFFICES ASSUME ConnInit PROVE ConnInv
    OBVIOUS
<1>1. ConnTypeOK
    BY SharedConnectionAssumption DEF ConnInit, ConnTypeOK, Link, Call
<1>2. Untouched /\ PendingHeld /\ Accounted /\ LostSpoils /\ Waiting /\ Ids /\ NoFailureYet
    BY DEF ConnInit, Untouched, PendingHeld, Accounted, LostSpoils, Waiting, Ids, NoFailureYet, Active
<1>3. QED
    BY <1>1, <1>2 DEF ConnInv

LEMMA ConnInvNext == ConnInv /\ [ConnNext]_connVars => ConnInv'
<1> SUFFICES ASSUME ConnInv, [ConnNext]_connVars PROVE ConnInv'
    OBVIOUS
<1>1. CASE UNCHANGED connVars
    BY <1>1 DEF connVars, ConnInv, ConnTypeOK, Untouched, PendingHeld, Accounted, LostSpoils,
                Waiting, Ids, NoFailureYet, Holds, Mine
<1>2. CASE \E job \in Jobs, first \in {"select", "write"} : Connect(job[1], job[2], job[3], first)
    <2>1. PICK job \in Jobs, first \in {"select", "write"} : Connect(job[1], job[2], job[3], first)
        BY <1>2
    <2>2. job[1] \in Calls /\ job[2] \in Servers /\ job[3] \in Rows
        BY SharedConnectionAssumption
    <2>3. QED
        BY <2>1, <2>2, ConnectKeeps
<1>3. CASE \E c \in Calls :
          \/ Select(c) \/ Write(c) \/ WaitForRow(c) \/ GetRow(c) \/ Commit(c)
          \/ Rejected(c) \/ FindsLost(c) \/ FindsClosed(c)
          \/ StatementFails(c) \/ Deadlocked(c)
    BY <1>3, SelectKeeps, WriteKeeps, WaitForRowKeeps, GetRowKeeps, CommitKeeps, RejectedKeeps,
       FindsLostKeeps, FindsClosedKeeps, StatementFailsKeeps, DeadlockedKeeps
<1>4. CASE \E s \in Servers : ConnectionLost(s)
    BY <1>4, ConnectionLostKeeps
<1>5. QED
    BY <1>1, <1>2, <1>3, <1>4 DEF ConnNext

LEMMA ConnInvHolds == ConnSpec => []ConnInv
BY ConnInvInit, ConnInvNext, PTL DEF ConnSpec

(* The variables have their types: the connection and what its calls hold  *)
(* of it, for any number of processes, calls and failures.                 *)
THEOREM ConnTypeCorrect == ConnSpec => []ConnTypeOK
BY ConnInvHolds, PTL DEF ConnInv

-----------------------------------------------------------------------------
(* Steps of a call as its caller sees them *)
LEMMA EndedQuietly ==
    ASSUME ConnInv, NEW c \in Calls, NEW pc \in Pcs \ {"returned", "raised"},
           call[c].pc \notin {"returned", "raised"}, Moved(c, pc)
    PROVE  Ended' = Ended
BY MovedFacts DEF ConnInv, Ended

LEMMA EndedNow ==
    ASSUME ConnInv, NEW c \in Calls, NEW pc \in {"returned", "raised"}, Moved(c, pc)
    PROVE  Ended' = [Ended EXCEPT ![c] = pc]
<1>1. \A d \in Calls : call'[d].pc = IF d = c THEN pc ELSE call[d].pc
    BY MovedFacts DEF ConnInv, Pcs
<1>2. \A d \in Calls : Ended'[d] = IF d = c THEN pc ELSE Ended[d]
    BY <1>1 DEF Ended
<1>3. QED
    BY <1>2 DEF Ended

LEMMA UnderWayIs ==
    \A c \in Calls : c \in Promise!UnderWay <=> call[c].pc \notin {"returned", "raised"}
BY DEF Promise!UnderWay, Ended

LEMMA QuietStep ==
    ASSUME Ended' = Ended, UNCHANGED <<stored, spoiled, failures>>
    PROVE  UNCHANGED Promise!txVars
BY DEF Promise!txVars

LEMMA RaisesAlone ==
    ASSUME ConnInv, NEW c \in Calls, call[c].pc \in Active, Moved(c, "raised"),
           failures > 0, c \in stored => c \in spoiled, UNCHANGED <<stored, spoiled, failures>>
    PROVE  Promise!TxNext
<1>1. Ended' = [Ended EXCEPT ![c] = "raised"]
    BY EndedNow
<1>2. c \in Promise!UnderWay
    BY UnderWayIs DEF Active
<1>3. Promise!Raise(c)
    BY <1>1, <1>2 DEF Promise!Raise
<1>4. QED
    BY <1>3 DEF Promise!TxNext

LEMMA RejectedRaises ==
    ASSUME ConnInv, NEW c \in Calls, Rejected(c) \/ FindsLost(c) \/ FindsClosed(c)
    PROVE  Promise!TxNext
<1>1. /\ call[c].pc \in {"select", "write", "commit"} /\ Moved(c, "raised")
      /\ UNCHANGED <<stored, spoiled, failures>>
    BY DEF Rejected, FindsLost, FindsClosed
<1>2. Mine(c) \in Servers
    BY <1>1, ActiveServer DEF Active
<1>3. c \in stored => c \in spoiled
    BY <1>1 DEF Rejected, FindsLost, FindsClosed, ConnInv, Untouched, LostSpoils
<1>4. failures # 0
    BY <1>1, <1>2 DEF Rejected, FindsLost, FindsClosed, ConnInv, NoFailureYet, Holds, Active
<1>5. failures > 0
    BY <1>4 DEF ConnInv, ConnTypeOK
<1>6. QED
    BY <1>1, <1>3, <1>5, RaisesAlone DEF Active

LEMMA CommitReturns ==
    ASSUME ConnInv, NEW c \in Calls, Commit(c)
    PROVE  Promise!TxNext
<1>1. Mine(c) \in Servers /\ call[c].pc = "commit"
    BY ActiveServer DEF Commit, Active
<1>2. \A d \in pending[Mine(c)] : d \in Calls /\ call[d].pc = "commit" /\ d \notin spoiled
    BY <1>1, ServerTypes DEF ConnInv, PendingHeld
<1>3. stored' = stored \cup pending[Mine(c)] /\ UNCHANGED <<spoiled, failures>>
    BY DEF Commit
<1>4. c \in stored' \cup spoiled
    BY <1>1, <1>3 DEF ConnInv, Accounted
<1>5. c \in Promise!UnderWay /\ pending[Mine(c)] \subseteq Promise!UnderWay \ spoiled
    BY <1>1, <1>2, UnderWayIs
<1>6. Ended' = [Ended EXCEPT ![c] = "returned"]
    BY EndedNow DEF Commit
<1>7. Promise!Return(c)
    BY <1>3, <1>4, <1>5, <1>6 DEF Promise!Return
<1>8. QED
    BY <1>7 DEF Promise!TxNext

LEMMA AbortFails ==
    ASSUME ConnInv, NEW c \in Calls, Abort(c), call[c].pc \in {"select", "write", "waits"}
    PROVE  Promise!TxNext
<1>1. Mine(c) \in Servers
    BY ActiveServer DEF Active
<1>2. pending[Mine(c)] \subseteq Promise!UnderWay
    BY <1>1, ServerTypes, UnderWayIs DEF ConnInv, PendingHeld
<1>3. c \in Promise!UnderWay \ stored
    BY UnderWayIs DEF ConnInv, Untouched
<1>4. Ended' = [Ended EXCEPT ![c] = "raised"]
    BY EndedNow DEF Abort
<1>5. Promise!Fail
    BY <1>2, <1>3, <1>4 DEF Promise!Fail, Abort
<1>6. QED
    BY <1>5 DEF Promise!TxNext

LEMMA LossFails ==
    ASSUME ConnInv, NEW s \in Servers, ConnectionLost(s)
    PROVE  Promise!TxNext
<1> DEFINE at(pc) == {c \in Calls : call[c].pc = pc /\ Mine(c) = s /\ Holds(c)}
<1>1. /\ failures' = failures + 1 /\ spoiled' = spoiled \cup at("commit")
      /\ stored' \in {stored} \cup {stored \cup pending[s]}
      /\ call' = [c \in Calls |->
                    IF c \in at("waits") THEN [call[c] EXCEPT !.pc = "raised"] ELSE call[c]]
    BY DEF ConnectionLost
<1>2. at("commit") \subseteq Promise!UnderWay
    BY UnderWayIs
<1>3. /\ pending[s] \subseteq at("commit")
      /\ \A d \in pending[s] : d \notin spoiled
    BY ServerTypes DEF ConnInv, PendingHeld
<1>4. \A d \in Calls : call'[d].pc = IF d \in at("waits") THEN "raised" ELSE call[d].pc
    <2>1. \A d \in Calls : call[d] \in Call
        BY DEF ConnInv, ConnTypeOK
    <2>2. QED
        BY <1>1, <2>1 DEF Call
<1>5. /\ \A d \in at("waits") : d \in Promise!UnderWay \ stored'
      /\ \A d, e \in at("waits") : d = e
    <2>1. \A d \in at("waits") : d \in Promise!UnderWay /\ d \notin stored
        BY UnderWayIs DEF ConnInv, Untouched
    <2>2. \A d \in at("waits") : d \notin pending[s]
        BY DEF ConnInv, PendingHeld
    <2>3. \A d, e \in at("waits") : d = e
        BY DEF ConnInv, Waiting
    <2>4. QED
        BY <1>1, <2>1, <2>2, <2>3
<1> HIDE DEF at
<1>6. at("waits") \subseteq Calls
    BY DEF at
<1>7. \A d \in Calls : Ended'[d] = IF d \in at("waits") THEN "raised" ELSE Ended[d]
    BY <1>4 DEF Ended
<1>8. \/ Ended' = Ended
      \/ \E c \in Promise!UnderWay \ stored' : Ended' = [Ended EXCEPT ![c] = "raised"]
    <2>1. CASE at("waits") = {}
        BY <1>7, <2>1 DEF Ended
    <2>2. CASE at("waits") # {}
        <3>1. PICK c \in at("waits") : TRUE
            BY <2>2
        <3>2. Ended' = [Ended EXCEPT ![c] = "raised"]
            BY <1>5, <1>6, <1>7, <3>1 DEF Ended
        <3>3. QED
            BY <1>5, <3>1, <3>2
    <2>3. QED
        BY <2>1, <2>2
<1>9. Promise!Fail
    BY <1>1, <1>2, <1>3, <1>8 DEF Promise!Fail
<1>10. QED
    BY <1>9 DEF Promise!TxNext

LEMMA ConnectIsQuiet ==
    ASSUME ConnInv, NEW c \in Calls, NEW s \in Servers, NEW row \in Rows,
           NEW first \in {"select", "write"}, Connect(c, s, row, first)
    PROVE  UNCHANGED Promise!txVars
<1>1. \A d \in Calls \ {c} : call'[d] = call[d]
    BY DEF Connect, ConnInv, ConnTypeOK
<1>2. call[c].pc = "idle" /\ call'[c].pc = first
    BY DEF Connect, ConnInv, ConnTypeOK
<1>3. Ended' = Ended
    BY <1>1, <1>2 DEF Ended
<1>4. QED
    BY <1>3, QuietStep DEF Connect

LEMMA PromiseStep == ConnInv /\ [ConnNext]_connVars => [Promise!TxNext]_Promise!txVars
<1> SUFFICES ASSUME ConnInv, [ConnNext]_connVars PROVE [Promise!TxNext]_Promise!txVars
    OBVIOUS
<1>1. CASE UNCHANGED connVars
    BY <1>1, QuietStep DEF connVars, Ended
<1>2. CASE \E job \in Jobs, first \in {"select", "write"} : Connect(job[1], job[2], job[3], first)
    <2>1. PICK job \in Jobs, first \in {"select", "write"} : Connect(job[1], job[2], job[3], first)
        BY <1>2
    <2>2. job[1] \in Calls /\ job[2] \in Servers /\ job[3] \in Rows
        BY SharedConnectionAssumption
    <2>3. QED
        BY <2>1, <2>2, ConnectIsQuiet
<1>3. CASE \E c \in Calls : Select(c) \/ Write(c) \/ WaitForRow(c) \/ GetRow(c)
    <2>1. PICK c \in Calls : Select(c) \/ Write(c) \/ WaitForRow(c) \/ GetRow(c)
        BY <1>3
    <2>2. /\ call[c].pc \in {"select", "write", "waits"}
          /\ \E pc \in {"read", "write", "waits", "commit"} : Moved(c, pc)
          /\ UNCHANGED <<stored, spoiled, failures>>
        BY <2>1 DEF Select, Write, WaitForRow, GetRow, Written
    <2>3. Ended' = Ended
        BY <2>2, EndedQuietly DEF Pcs
    <2>4. QED
        BY <2>2, <2>3, QuietStep
<1>4. CASE \E c \in Calls : Commit(c)
    BY <1>4, CommitReturns
<1>5. CASE \E c \in Calls : Rejected(c) \/ FindsLost(c) \/ FindsClosed(c)
    BY <1>5, RejectedRaises
<1>6. CASE \E c \in Calls : StatementFails(c) \/ Deadlocked(c)
    BY <1>6, AbortFails DEF StatementFails, Deadlocked
<1>7. CASE \E s \in Servers : ConnectionLost(s)
    BY <1>7, LossFails
<1>8. QED
    BY <1>1, <1>2, <1>3, <1>4, <1>5, <1>6, <1>7 DEF ConnNext

(* The calls of any number of threads and processes keep the promise of    *)
(* Transactions: a call of a store function that returns has stored its    *)
(* row and one that raises has not, unless something failed while it was   *)
(* past its write, and nothing raises before a failure.                    *)
THEOREM CallsKeepThePromise == ConnSpec => OneTransactionEach
<1>1. ConnInit => Promise!TxInit
    BY DEF ConnInit, Promise!TxInit, Ended
<1>2. QED
    BY <1>1, PromiseStep, ConnInvHolds, PTL DEF ConnSpec, OneTransactionEach, Promise!TxSpec

----------------------------------------------------------------------------
(* All of them together: a step of MCStores is a step or a stutter of each. *)

\* Whatever is proved of one of the three holds of the instance that runs them.
THEOREM EachKeepsToItself == StoresSpec => DashSpec /\ SrcSpec /\ ConnSpec
<1>1. StoresInit => DashInit /\ SrcInit /\ ConnInit
  BY DEF StoresInit
<1>2. [StoresNext]_<<dashVars, srcVars, connVars, moves>>
         => [DashNext]_dashVars /\ [SrcNext]_srcVars /\ [ConnNext]_connVars
  BY DEF StoresNext
<1> QED
  BY <1>1, <1>2, PTL DEF StoresSpec, DashSpec, SrcSpec, ConnSpec

\* The rows of all tables keep their columns, and the locals of their handlers too.
THEOREM StoresTypeCorrect == StoresSpec => []StoresTypeOK
<1>1. DashTypeOK /\ SrcTypeOK /\ ConnTypeOK => StoresTypeOK
  BY DEF StoresTypeOK
<1> QED
  BY <1>1, EachKeepsToItself, DashTypeCorrect, SrcTypeCorrect, ConnTypeCorrect, PTL
=============================================================================
