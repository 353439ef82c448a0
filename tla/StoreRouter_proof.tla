-------------------------- MODULE StoreRouter_proof --------------------------
(***************************************************************************)
(* For any number of clients and handles, whatever deletions and shutdowns *)
(* come in between: refs count the holders exactly, and so the evictor      *)
(* never closes a store somebody holds; and no open store is outside the    *)
(* router's map.  Where no deletion overlapped with another client, its    *)
(* file is the one on disk.                                                *)
(***************************************************************************)
EXTENDS StoreRouter, FiniteSetTheorems, TLAPS

\* A client that acquired has a handle that was opened; the entry is open.
HandlesOK ==
    /\ \A c \in Client : pc[c] \in Acquired \cup {"using"} =>
          hnd[c] \in Handle /\ state[hnd[c]] # "unopened"
    /\ \A h \in Handle : state[h] # "unopened" => file[h] # 0
    /\ entry # 0 => entry \in Handle /\ state[entry] = "open"

RInv == TypeOK /\ HandlesOK /\ RefsExact /\ OneOpen /\ HeldNotEvicted

USE RouterAssumption

LEMMA HoldersFinite == ASSUME NEW h PROVE IsFiniteSet(Holders(h)) /\ IsFiniteSet(Holders(h)')
<1>1. Holders(h) \subseteq Client
  BY DEF Holders
<1>2. Holders(h)' \subseteq Client
  BY DEF Holders
<1> QED
  BY <1>1, <1>2, FS_Subset

\* A step that moves no client into or out of a hold keeps the counts.
LEMMA SameHolders ==
    ASSUME RefsExact, UNCHANGED refs, \A h \in Handle : Holders(h)' = Holders(h)
    PROVE  RefsExact'
  BY DEF RefsExact

\* Lookup gives the entry, which is open, and leaves every other handle alone.
LEMMA LookupOK ==
    ASSUME RInv, NEW h \in Handle, Lookup(h)
    PROVE  /\ entry' = h /\ state'[h] = "open"
           /\ \A k \in Handle \ {h} : state'[k] = state[k] /\ file'[k] = file[k]
           /\ file'[h] # 0
           /\ entry \in {0, h}
           /\ (state[h] # "open" => state[h] = "unopened")
           /\ db' \in 0..MaxOpens /\ rows' \subseteq Handle /\ entry' \in 0..MaxOpens
           /\ state' \in [Handle -> {"unopened", "open", "evicted", "deleted", "shut"}]
           /\ file' \in [Handle -> 0..MaxOpens] /\ idle' \in BOOLEAN
<1> USE DEF RInv, TypeOK, HandlesOK, Handle
<1>1. CASE h = entry /\ h # 0 /\ UNCHANGED <<db, rows, entry, state, file>>
  BY <1>1 DEF Lookup
<1>2. CASE entry = 0
  <2>1. /\ state[h] = "unopened" /\ entry' = h
        /\ state' = [state EXCEPT ![h] = "open"]
        /\ db' = IF db = 0 THEN h ELSE db
        /\ file' = [file EXCEPT ![h] = db']
        /\ rows' = rows /\ idle' = FALSE
    BY <1>2 DEF Lookup
  <2>2. db' \in 0..MaxOpens /\ db' # 0
    BY <2>1
  <2>3. file' \in [Handle -> 0..MaxOpens] /\ file'[h] # 0
    BY <2>1, <2>2
  <2>4. \A k \in Handle \ {h} : state'[k] = state[k] /\ file'[k] = file[k]
    BY <2>1
  <2>5. state'[h] = "open"
    BY <2>1
  <2>6. state' \in [Handle -> {"unopened", "open", "evicted", "deleted", "shut"}]
    BY <2>1
  <2>7. entry' \in 0..MaxOpens /\ rows' \subseteq Handle
    BY <2>1
  <2>8. idle' \in BOOLEAN
    BY <2>1
  <2> HIDE DEF RInv, TypeOK, HandlesOK, Handle
  <2> QED
    BY <1>2, <2>1, <2>2, <2>3, <2>4, <2>5, <2>6, <2>7, <2>8
<1> QED
  BY <1>1, <1>2 DEF Lookup

\* The history of a step that moves a client.
LEMMA HistoryOK ==
    ASSUME TypeOK, NEW c, NEW place, NEW h, Goto(c, place, h)
    PROVE  raced' \in BOOLEAN /\ slow' \in BOOLEAN
<1>1. raced \in BOOLEAN /\ slow \in BOOLEAN
  BY DEF TypeOK
<1>2. raced' = (raced \/ Overlaps(c, place)) /\ slow' = slow
  BY DEF Goto
<1>3. (raced \/ Overlaps(c, place)) \in BOOLEAN
  <2>1. CASE raced \/ Overlaps(c, place)
    BY <2>1
  <2>2. CASE ~(raced \/ Overlaps(c, place))
    BY <2>2
  <2> QED
    BY <2>1, <2>2
<1> QED
  BY <1>1, <1>2, <1>3

LEMMA AcquireOK ==
    ASSUME RInv, NEW c \in Client, pc[c] \notin Acquired, NEW place \in Acquired,
           AcquireStore(c, place), watched' \in BOOLEAN, gone' \in BOOLEAN
    PROVE  RInv'
<1>1. PICK h \in Handle : /\ Lookup(h)
                          /\ refs' = [refs EXCEPT ![h] = @ + 1]
                          /\ Goto(c, place, h)
  BY DEF AcquireStore
<1>2. /\ entry' = h /\ state'[h] = "open"
      /\ \A k \in Handle \ {h} : state'[k] = state[k] /\ file'[k] = file[k]
      /\ file'[h] # 0
      /\ entry \in {0, h}
      /\ (state[h] # "open" => state[h] = "unopened")
      /\ db' \in 0..MaxOpens /\ rows' \subseteq Handle /\ entry' \in 0..MaxOpens
      /\ state' \in [Handle -> {"unopened", "open", "evicted", "deleted", "shut"}]
      /\ file' \in [Handle -> 0..MaxOpens] /\ idle' \in BOOLEAN
  BY <1>1, LookupOK
<1>3. /\ pc' = [pc EXCEPT ![c] = place] /\ hnd' = [hnd EXCEPT ![c] = h]
      /\ pc \in [Client -> {"idle", "has", "using", "snapped", "found"}
                            \cup Acquired \cup Deleting]
      /\ hnd \in [Client -> 0..MaxOpens] /\ refs \in [Handle -> Nat]
  BY <1>1 DEF Goto, RInv, TypeOK
<1>4. Holders(h)' = Holders(h) \cup {c} /\ c \notin Holders(h)
  BY <1>3 DEF Holders
<1>5. \A k \in Handle \ {h} : Holders(k)' = Holders(k)
  BY <1>3 DEF Holders
<1>6. Cardinality(Holders(h)') = Cardinality(Holders(h)) + 1
  BY <1>4, HoldersFinite, FS_AddElement
<1>7. RefsExact'
  BY <1>1, <1>3, <1>5, <1>6 DEF RefsExact, RInv
<1>8. TypeOK'
  <2>1. raced' \in BOOLEAN /\ slow' \in BOOLEAN
    BY <1>1, HistoryOK DEF RInv
  <2>2. 0..MaxOpens # {} /\ h \in 0..MaxOpens
    BY DEF Handle
  <2>3. refs' \in [Handle -> Nat]
    BY <1>1, <1>3
  <2> QED
    BY <1>2, <1>3, <2>1, <2>2, <2>3 DEF TypeOK
<1>9. HandlesOK'
  BY <1>2, <1>3 DEF HandlesOK, RInv
<1>10. OneOpen'
  BY <1>2 DEF OneOpen, RInv, HandlesOK, Handle
<1>11. HeldNotEvicted'
  BY <1>2, <1>5 DEF HeldNotEvicted, RInv
<1> QED
  BY <1>7, <1>8, <1>9, <1>10, <1>11 DEF RInv

LEMMA ReleaseOK ==
    ASSUME RInv, NEW c \in Client, pc[c] \in Acquired,
           NEW place \in {"idle", "has", "found"},
           Release(c, place), UNCHANGED store_vars, watched' \in BOOLEAN, gone' \in BOOLEAN
    PROVE  RInv'
<1>0. PICK h \in Handle : h = hnd[c]
  BY DEF RInv, HandlesOK
<1>1. /\ pc' = [pc EXCEPT ![c] = place] /\ hnd' = [hnd EXCEPT ![c] = 0]
      /\ refs' = [refs EXCEPT ![h] = @ - 1]
      /\ pc \in [Client -> {"idle", "has", "using", "snapped", "found"}
                            \cup Acquired \cup Deleting]
      /\ hnd \in [Client -> 0..MaxOpens] /\ refs \in [Handle -> Nat]
  BY <1>0 DEF Release, Goto, RInv, TypeOK
<1>2. place \notin Acquired \cup {"using"}
  BY DEF Acquired, Indexing
<1>3. Holders(h)' = Holders(h) \ {c} /\ c \in Holders(h)
  BY <1>0, <1>1, <1>2 DEF Holders
<1>4. \A k \in Handle \ {h} : Holders(k)' = Holders(k)
  BY <1>0, <1>1, <1>2 DEF Holders
<1>5. Cardinality(Holders(h)') = Cardinality(Holders(h)) - 1
  BY <1>3, HoldersFinite, FS_RemoveElement
<1>6. RefsExact'
  BY <1>1, <1>4, <1>5 DEF RefsExact, RInv
<1>7. Cardinality(Holders(h)') \in Nat
  BY HoldersFinite, FS_CardinalityType
<1>8. TypeOK'
  <2>1. refs' \in [Handle -> Nat]
    BY <1>1, <1>5, <1>7 DEF RefsExact, RInv
  <2> QED
    BY <1>1, <2>1, HistoryOK DEF TypeOK, RInv, Release, store_vars
<1>9. HandlesOK' /\ OneOpen' /\ HeldNotEvicted'
  BY <1>1, <1>2, <1>3, <1>4 DEF HandlesOK, OneOpen, HeldNotEvicted, RInv, store_vars
<1> QED
  BY <1>6, <1>8, <1>9 DEF RInv

\* A caller that has no ref moves on without one.
LEMMA MoveOK ==
    ASSUME RInv, NEW c \in Client, NEW place, NEW h,
           pc[c] \notin Acquired,
           place \in {"idle", "has", "snapped", "found"} \cup Deleting, h = 0,
           Goto(c, place, h), UNCHANGED <<store_vars, refs>>,
           watched' \in BOOLEAN, gone' \in BOOLEAN
    PROVE  RInv'
<1>1. place \notin Acquired \cup {"using"}
  BY DEF Acquired, Indexing, Deleting
<1>2. \A k \in Handle : Holders(k)' = Holders(k)
  BY <1>1 DEF Holders, Goto, RInv, TypeOK
<1>3. RefsExact'
  BY <1>2, SameHolders DEF RInv
<1>4. TypeOK'
  BY HistoryOK DEF TypeOK, RInv, Goto, store_vars
<1>5. HandlesOK' /\ OneOpen' /\ HeldNotEvicted'
  BY <1>1, <1>2 DEF HandlesOK, OneOpen, HeldNotEvicted, RInv, TypeOK, Goto, store_vars
<1> QED
  BY <1>3, <1>4, <1>5 DEF RInv

\* A holder goes on with the handle it has.
LEMMA KeepOK ==
    ASSUME RInv, NEW c \in Client, NEW place \in Indexing, pc[c] \in Acquired,
           Goto(c, place, hnd[c]), UNCHANGED <<db, entry, state, file, idle, refs>>,
           rows' \subseteq Handle, watched' \in BOOLEAN, gone' \in BOOLEAN
    PROVE  RInv'
<1>1. place \in Acquired
  BY DEF Acquired
<1>2. \A k \in Handle : Holders(k)' = Holders(k)
  BY <1>1 DEF Holders, Goto, RInv, TypeOK
<1>3. RefsExact'
  BY <1>2, SameHolders DEF RInv
<1>4. TypeOK'
  BY <1>1, HistoryOK DEF TypeOK, RInv, Goto
<1>5. HandlesOK' /\ OneOpen' /\ HeldNotEvicted'
  BY <1>1, <1>2 DEF HandlesOK, OneOpen, HeldNotEvicted, RInv, TypeOK, Goto
<1> QED
  BY <1>3, <1>4, <1>5 DEF RInv

LEMMA RouterInit == Init => RInv
<1> SUFFICES ASSUME Init PROVE RInv
  OBVIOUS
<1>1. TypeOK
  BY 0 \in 0..MaxOpens DEF Init, TypeOK
<1>2. \A h \in Handle : Holders(h) = {}
  BY DEF Init, Holders, Acquired, Indexing
<1>3. RefsExact
  BY <1>2, FS_EmptySet DEF Init, RefsExact
<1>4. HandlesOK /\ OneOpen /\ HeldNotEvicted
  BY <1>2 DEF Init, HandlesOK, OneOpen, HeldNotEvicted, Acquired, Indexing
<1> QED
  BY <1>1, <1>3, <1>4 DEF RInv

\* Closing the entry's store: allowed to the evictor only when nobody holds it.
LEMMA CloseOK ==
    ASSUME RInv, NEW how \in {"evicted", "deleted", "shut"}, entry # 0,
           how = "evicted" => refs[entry] <= 0,
           state' = [state EXCEPT ![entry] = how], entry' = 0,
           UNCHANGED <<db, rows, file, idle, refs, watched, gone>>,
           \/ UNCHANGED <<pc, hnd, raced, slow>>
           \/ \E c \in Client : pc[c] = "deleting" /\ Goto(c, "closed", 0)
    PROVE  RInv'
<1>1. PICK e \in Handle : e = entry /\ state[e] = "open"
  BY DEF RInv, HandlesOK
<1>2. \A k \in Handle : Holders(k)' = Holders(k)
  BY DEF Holders, RInv, TypeOK, Goto, Acquired, Indexing
<1>3. RefsExact'
  BY <1>2, SameHolders DEF RInv
<1>4. TypeOK'
  BY <1>1, 0 \in 0..MaxOpens, HistoryOK DEF TypeOK, RInv, Goto, Deleting
<1>5. HandlesOK'
  BY <1>1 DEF HandlesOK, RInv, TypeOK, Goto, Acquired, Indexing
<1>6. OneOpen'
  BY <1>1 DEF OneOpen, RInv, TypeOK
<1>7. how = "evicted" => Holders(e) = {}
  <2> SUFFICES ASSUME how = "evicted" PROVE Holders(e) = {}
    OBVIOUS
  <2>1. Cardinality(Holders(e)) <= 0
    BY <1>1 DEF RInv, RefsExact
  <2>2. Cardinality(Holders(e)) = 0
    BY <2>1, HoldersFinite, FS_CardinalityType
  <2> QED
    BY <2>2, HoldersFinite, FS_EmptySet
<1>8. HeldNotEvicted'
  BY <1>1, <1>2, <1>7 DEF HeldNotEvicted, RInv, TypeOK
<1> QED
  BY <1>3, <1>4, <1>5, <1>6, <1>8 DEF RInv

LEMMA RouterNext == RInv /\ [Next]_vars => RInv'
<1> SUFFICES ASSUME RInv, [Next]_vars PROVE RInv'
  OBVIOUS
<1> USE DEF Acquired, Indexing
<1>0. /\ watched \in BOOLEAN /\ gone \in BOOLEAN /\ rows \subseteq Handle
      /\ raced \in BOOLEAN /\ slow \in BOOLEAN
  BY DEF RInv, TypeOK
<1>1. ASSUME NEW c \in Client, QueryCheck(c) \/ QueryDone(c) PROVE RInv'
  BY <1>0, <1>1, MoveOK DEF QueryCheck, QueryDone
<1>2. ASSUME NEW c \in Client, ForProject(c) PROVE RInv'
  <2>1. PICK h \in Handle : Lookup(h) /\ Goto(c, "using", h)
    BY <1>2 DEF ForProject
  <2>2. /\ entry' = h /\ state'[h] = "open"
        /\ \A k \in Handle \ {h} : state'[k] = state[k] /\ file'[k] = file[k]
        /\ file'[h] # 0
        /\ entry \in {0, h}
        /\ (state[h] # "open" => state[h] = "unopened")
        /\ db' \in 0..MaxOpens /\ rows' \subseteq Handle /\ entry' \in 0..MaxOpens
        /\ state' \in [Handle -> {"unopened", "open", "evicted", "deleted", "shut"}]
        /\ file' \in [Handle -> 0..MaxOpens] /\ idle' \in BOOLEAN
    BY <2>1, LookupOK
  <2>3. /\ pc[c] = "has" /\ pc' = [pc EXCEPT ![c] = "using"] /\ hnd' = [hnd EXCEPT ![c] = h]
        /\ UNCHANGED <<refs, watched, gone>>
        /\ pc \in [Client -> {"idle", "has", "using", "snapped", "found"}
                              \cup Acquired \cup Deleting]
        /\ hnd \in [Client -> 0..MaxOpens] /\ refs \in [Handle -> Nat]
    BY <1>2, <2>1 DEF ForProject, Goto, RInv, TypeOK
  <2>4. \A k \in Handle : Holders(k)' = Holders(k)
    BY <2>3 DEF Holders
  <2>5. RefsExact'
    BY <2>3, <2>4, SameHolders DEF RInv
  <2>6. TypeOK'
    BY <1>0, <2>1, <2>2, <2>3, HistoryOK DEF TypeOK, RInv, Handle
  <2>7. HandlesOK'
    <3>1. \A d \in Client \ {c} : pc'[d] = pc[d] /\ hnd'[d] = hnd[d]
      BY <2>3
    <3>2. pc'[c] = "using" /\ hnd'[c] = h
      BY <2>3
    <3> QED
      BY <2>2, <3>1, <3>2 DEF HandlesOK, RInv
  <2>8. OneOpen'
    BY <2>2 DEF OneOpen, RInv, Handle
  <2>9. HeldNotEvicted'
    BY <2>2, <2>4 DEF HeldNotEvicted, RInv
  <2> QED
    BY <2>5, <2>6, <2>7, <2>8, <2>9 DEF RInv
<1>3. ASSUME NEW c \in Client, TouchProject(c) \/ ListProjects(c) \/ PollAcquire(c)
      PROVE  RInv'
  BY <1>0, <1>3, AcquireOK DEF TouchProject, ListProjects, PollAcquire
<1>4. ASSUME NEW c \in Client, PollSnapshot(c) \/ PollDone(c) PROVE RInv'
  BY <1>0, <1>4, MoveOK DEF PollSnapshot, PollDone
<1>5. ASSUME NEW c \in Client, PeekDone(c) PROVE RInv'
  BY <1>0, <1>5, ReleaseOK DEF PeekDone, HasRow
<1>6. ASSUME NEW c \in Client, RunAcquire(c) \/ SyncAcquire(c) PROVE RInv'
  BY <1>0, <1>6, AcquireOK DEF RunAcquire, SyncAcquire
<1>7. ASSUME NEW c \in Client, SyncCheck(c) PROVE RInv'
  BY <1>0, <1>7, ReleaseOK, KeepOK DEF SyncCheck, store_vars
<1>8. ASSUME NEW c \in Client, BeginTx(c) PROVE RInv'
  BY <1>0, <1>8, KeepOK DEF BeginTx, store_vars
<1>9. ASSUME NEW c \in Client, CommitTx(c) PROVE RInv'
  <2>1. file[hnd[c]] \in Handle
    BY <1>9 DEF CommitTx, RInv, HandlesOK, TypeOK, Handle
  <2> QED
    BY <1>0, <1>9, <2>1, KeepOK DEF CommitTx
<1>10. ASSUME NEW c \in Client, RunSucceeds(c) \/ RunFails(c) PROVE RInv'
  BY <1>0, <1>10, ReleaseOK DEF RunSucceeds, RunFails
<1>11. ASSUME NEW c \in Client, DeleteCheck(c) \/ DeleteUnwatch(c) PROVE RInv'
  BY <1>0, <1>11, MoveOK DEF DeleteCheck, DeleteUnwatch, Deleting
<1>12. ASSUME NEW c \in Client, DeleteClose(c) PROVE RInv'
  <2>1. CASE entry = 0
    BY <1>0, <1>12, <2>1, MoveOK DEF DeleteClose, Deleting, store_vars
  <2>2. CASE entry # 0
    BY <1>12, <2>2, CloseOK DEF DeleteClose
  <2> QED
    BY <2>1, <2>2
<1>13. ASSUME NEW c \in Client, DeleteUnlink(c) PROVE RInv'
  <2>1. /\ pc[c] = "closed" /\ pc' = [pc EXCEPT ![c] = "unlinked"]
        /\ hnd' = [hnd EXCEPT ![c] = 0] /\ db' = 0
        /\ UNCHANGED <<rows, entry, state, file, idle, refs, watched, gone>>
    BY <1>13 DEF DeleteUnlink, Goto
  <2>2. \A k \in Handle : Holders(k)' = Holders(k)
    BY <2>1 DEF Holders, RInv, TypeOK
  <2>3. RefsExact'
    BY <2>1, <2>2, SameHolders DEF RInv
  <2>4. TypeOK'
    BY <1>13, <2>1, 0 \in 0..MaxOpens, HistoryOK DEF DeleteUnlink, TypeOK, RInv, Deleting
  <2>5. HandlesOK' /\ OneOpen' /\ HeldNotEvicted'
    BY <2>1, <2>2 DEF HandlesOK, OneOpen, HeldNotEvicted, RInv, TypeOK
  <2> QED
    BY <2>3, <2>4, <2>5 DEF RInv
<1>14. CASE evictIdle
  BY <1>14, CloseOK DEF evictIdle, client_vars
<1>15. CASE CloseAll
  BY <1>15, CloseOK DEF CloseAll, client_vars
<1>16. CASE TimePasses \/ UNCHANGED vars
  <2>1. UNCHANGED <<db, rows, entry, state, file, refs, watched, pc, hnd, gone>>
    BY <1>16 DEF TimePasses, vars, store_vars, client_vars
  <2>2. \A k \in Handle : Holders(k)' = Holders(k)
    BY <2>1 DEF Holders
  <2>3. RefsExact'
    BY <2>1, <2>2, SameHolders DEF RInv
  <2>4. TypeOK'
    <3>1. raced' \in BOOLEAN /\ slow' \in BOOLEAN
      BY <1>16, <1>0 DEF TimePasses, vars
    <3> QED
      BY <1>16, <2>1, <3>1 DEF TypeOK, RInv, TimePasses, vars, store_vars
  <2>5. HandlesOK' /\ OneOpen' /\ HeldNotEvicted'
    BY <2>1, <2>2 DEF HandlesOK, OneOpen, HeldNotEvicted, RInv
  <2> QED
    BY <2>3, <2>4, <2>5 DEF RInv
<1>17. ASSUME NEW h \in Handle, Collect(h) PROVE RInv'
  <2>1. /\ state[h] \notin {"unopened", "open"} /\ \A c \in Client : hnd[c] # h
        /\ state' = [state EXCEPT ![h] = "unopened"] /\ file' = [file EXCEPT ![h] = 0]
        /\ rows' = rows \ {h}
        /\ UNCHANGED <<db, entry, idle, refs, watched, pc, hnd, gone, raced, slow>>
    BY <1>17 DEF Collect, client_vars
  <2>2. \A k \in Handle : Holders(k)' = Holders(k)
    BY <2>1 DEF Holders
  <2>3. RefsExact'
    BY <2>1, <2>2, SameHolders DEF RInv
  <2>4. TypeOK'
    BY <2>1, 0 \in 0..MaxOpens DEF TypeOK, RInv
  <2>5. HandlesOK' /\ OneOpen' /\ HeldNotEvicted'
    BY <2>1, <2>2 DEF HandlesOK, OneOpen, HeldNotEvicted, RInv, TypeOK
  <2> QED
    BY <2>3, <2>4, <2>5 DEF RInv
<1> QED
  BY <1>1, <1>2, <1>3, <1>4, <1>5, <1>6, <1>7, <1>8, <1>9, <1>10, <1>11, <1>12,
     <1>13, <1>14, <1>15, <1>16, <1>17 DEF Next, Query, Peek, Index, Delete

LEMMA RouterHolds == Spec => []RInv
<1> QED
  BY RouterInit, RouterNext, PTL DEF Spec

\* With any number of clients, through deletions and shutdowns: the ref count is
\* the number of holders, and the evictor never closes a held store.
THEOREM RouterCorrect == Spec => [](TypeOK /\ RefsExact /\ HeldNotEvicted)
<1>1. RInv => TypeOK /\ RefsExact /\ HeldNotEvicted
  BY DEF RInv
<1> QED
  BY <1>1, RouterHolds, PTL

\* The router knows every open store, whoever races for it.
THEOREM OpenCorrect == Spec => []OneOpen
<1>1. RInv => OneOpen
  BY DEF RInv
<1> QED
  BY <1>1, RouterHolds, PTL

-----------------------------------------------------------------------------
(* Files: as long as no deletion overlapped with another client, a deletion *)
(* works alone, and what it leaves is nobody's.                             *)

Alone == \A c, d \in Client : c # d /\ pc[c] \in Deleting => pc[d] = "idle"
Emptied == \A c \in Client : /\ pc[c] \in {"closed", "unlinked"} => entry = 0
                             /\ pc[c] = "unlinked" => db = 0
Absent == gone => db = 0 /\ entry = 0 /\ ~watched /\ \A c \in Client : pc[c] = "idle"
EntryOnDisk == entry # 0 => file[entry] = db
DiskInv == ~raced => EntryOnDisk /\ Alone /\ Emptied /\ Absent

\* A deletion that meets nobody is the only client that moves.
LEMMA AloneStays ==
    ASSUME RInv, Alone, NEW c \in Client, NEW place, NEW h, Goto(c, place, h), ~raced'
    PROVE  Alone'
<1>1. /\ \A d \in Client \ {c} : pc'[d] = pc[d]
      /\ pc'[c] = place /\ ~Overlaps(c, place)
  BY DEF Goto, RInv, TypeOK
<1>2. SUFFICES ASSUME NEW x \in Client, NEW y \in Client, x # y, pc'[x] \in Deleting
               PROVE  pc'[y] = "idle"
  BY DEF Alone
<1>3. CASE x = c
  BY <1>1, <1>2, <1>3 DEF Overlaps
<1>4. CASE y = c
  BY <1>1, <1>2, <1>4 DEF Overlaps
<1>5. CASE x # c /\ y # c
  BY <1>1, <1>2, <1>5 DEF Alone
<1> QED
  BY <1>3, <1>4, <1>5

\* When a client that deletes nothing sets to work and overlaps with nobody,
\* nobody deletes.
LEMMA NobodyDeletes ==
    ASSUME RInv, NEW c \in Client, NEW place, NEW h, Goto(c, place, h), ~raced',
           place \notin Deleting \cup {"idle"}, pc[c] \notin Deleting
    PROVE  Alone' /\ Emptied'
<1>1. /\ \A d \in Client \ {c} : pc'[d] = pc[d]
      /\ pc'[c] = place /\ ~Overlaps(c, place)
  BY DEF Goto, RInv, TypeOK
<1>2. \A d \in Client : pc'[d] \notin Deleting
  BY <1>1 DEF Overlaps
<1> QED
  BY <1>2 DEF Alone, Emptied, Deleting

\* A handle that Lookup opens is on the file that is there, or creates it.
LEMMA LookupOnDisk ==
    ASSUME RInv, EntryOnDisk, NEW h \in Handle, Lookup(h)
    PROVE  EntryOnDisk'
<1>1. CASE h = entry /\ h # 0 /\ UNCHANGED <<db, rows, entry, state, file>>
  BY <1>1 DEF EntryOnDisk
<1>2. CASE entry' = h /\ file' = [file EXCEPT ![h] = db']
  BY <1>2 DEF EntryOnDisk, RInv, TypeOK
<1> QED
  BY <1>1, <1>2 DEF Lookup

\* A step of a client that works on the disk as it is, and stays or comes to
\* rest: the project is not away, and is not deleted.
LEMMA ClientStep ==
    ASSUME RInv, EntryOnDisk, Alone, Emptied, ~raced',
           NEW c \in Client, NEW place, NEW h, Goto(c, place, h), pc[c] \notin Deleting,
           place \notin Deleting, UNCHANGED <<db, entry, file>>
    PROVE  EntryOnDisk' /\ Alone' /\ Emptied'
<1>1. EntryOnDisk'
  BY DEF EntryOnDisk
<1>2. Alone'
  BY AloneStays
<1>3. \A d \in Client : pc'[d] \in Deleting => pc[d] = pc'[d]
  BY DEF Goto, RInv, TypeOK
<1>4. Emptied'
  BY <1>3 DEF Emptied, Deleting
<1> QED
  BY <1>1, <1>2, <1>4

LEMMA DiskNext == RInv /\ DiskInv /\ [Next]_vars => DiskInv'
<1> SUFFICES ASSUME RInv, DiskInv, [Next]_vars, ~raced' PROVE (EntryOnDisk /\ Alone /\ Emptied /\ Absent)'
  BY DEF DiskInv
<1>0. ~raced /\ EntryOnDisk /\ Alone /\ Emptied /\ Absent
  <2>1. raced => raced'
    BY DEF Next, Query, Peek, Index, Delete, QueryCheck, QueryDone, ForProject, TouchProject,
           ListProjects, PollAcquire, AcquireStore, PollSnapshot, PollDone, PeekDone, Release,
           RunAcquire, SyncAcquire, SyncCheck, BeginTx, CommitTx, RunSucceeds, RunFails,
           DeleteCheck, DeleteClose, DeleteUnlink, DeleteUnwatch, Goto, TimePasses, evictIdle,
           CloseAll, Collect, vars
  <2> QED
    BY <2>1 DEF DiskInv
<1>1. ASSUME NEW c \in Client, QueryCheck(c) \/ QueryDone(c) \/ PollSnapshot(c) \/ PollDone(c)
      PROVE  (EntryOnDisk /\ Alone /\ Emptied /\ Absent)'
  <2>1. PICK place \in {"has", "snapped", "idle"} : Goto(c, place, 0)
    BY <1>1 DEF QueryCheck, QueryDone, PollSnapshot, PollDone
  <2>2. pc[c] \notin Deleting /\ UNCHANGED <<db, entry, file, watched, gone>> /\ ~gone
    BY <1>0, <1>1 DEF QueryCheck, QueryDone, PollSnapshot, PollDone, Deleting, store_vars, Absent,
       HasProject
  <2> QED
    BY <1>0, <2>1, <2>2, ClientStep DEF Absent, Deleting
<1>2. ASSUME NEW c \in Client, ForProject(c) \/ TouchProject(c) \/ ListProjects(c)
                                 \/ PollAcquire(c) \/ RunAcquire(c) \/ SyncAcquire(c)
      PROVE  (EntryOnDisk /\ Alone /\ Emptied /\ Absent)'
  <2>1. PICK h \in Handle, place \in Acquired \cup {"using"} : Lookup(h) /\ Goto(c, place, h)
    BY <1>2 DEF ForProject, TouchProject, ListProjects, PollAcquire, RunAcquire, SyncAcquire,
                AcquireStore, Acquired, Indexing
  <2>2. pc[c] \notin Deleting /\ place \notin Deleting \cup {"idle"}
    BY <1>2 DEF ForProject, TouchProject, ListProjects, PollAcquire, RunAcquire, SyncAcquire,
                Deleting, Acquired, Indexing
  <2>3. ~gone'
    BY <1>0, <1>2 DEF ForProject, TouchProject, ListProjects, PollAcquire, RunAcquire,
                      SyncAcquire, Absent, HasProject
  <2> QED
    BY <1>0, <2>1, <2>2, <2>3, LookupOnDisk, NobodyDeletes DEF Absent
<1>3. ASSUME NEW c \in Client, PeekDone(c) \/ SyncCheck(c) \/ BeginTx(c) \/ CommitTx(c)
                                 \/ RunSucceeds(c) \/ RunFails(c)
      PROVE  (EntryOnDisk /\ Alone /\ Emptied /\ Absent)'
  <2>1. PICK place \in {"idle", "found", "has", "running", "intx", "committed"} :
           \E h : Goto(c, place, h)
    BY <1>3 DEF PeekDone, SyncCheck, BeginTx, CommitTx, RunSucceeds, RunFails, Release
  <2>2. pc[c] \notin Deleting \cup {"idle"} /\ UNCHANGED <<db, entry, file, gone>>
    BY <1>3 DEF PeekDone, SyncCheck, BeginTx, CommitTx, RunSucceeds, RunFails, Deleting, store_vars
  <2>3. ~gone'
    BY <1>0, <2>2 DEF Absent
  <2> QED
    BY <1>0, <2>1, <2>2, <2>3, ClientStep DEF Absent, Deleting
<1>4. ASSUME NEW c \in Client, DeleteCheck(c)
      PROVE  (EntryOnDisk /\ Alone /\ Emptied /\ Absent)'
  <2>1. Goto(c, "deleting", 0) /\ UNCHANGED <<db, entry, file, gone>> /\ ~gone
    BY <1>0, <1>4 DEF DeleteCheck, store_vars, HasProject, Absent
  <2>2. \A d \in Client : pc'[d] = pc[d] \/ pc'[d] = "deleting"
    BY <2>1 DEF Goto, RInv, TypeOK
  <2> QED
    BY <1>0, <2>1, <2>2, AloneStays DEF EntryOnDisk, Emptied, Absent
<1>5. ASSUME NEW c \in Client, DeleteClose(c) \/ DeleteUnlink(c)
      PROVE  (EntryOnDisk /\ Alone /\ Emptied /\ Absent)'
  <2>1. PICK place \in {"closed", "unlinked"} : Goto(c, place, 0)
    BY <1>5 DEF DeleteClose, DeleteUnlink
  <2>2. /\ entry' = 0 /\ (db' = db \/ db' = 0) /\ UNCHANGED gone /\ ~gone
        /\ (place = "unlinked" => db' = 0)
    BY <1>0, <1>5, <2>1 DEF DeleteClose, DeleteUnlink, Emptied, Absent, Goto, RInv, TypeOK
  <2>3. /\ pc'[c] = place /\ pc[c] \in Deleting
        /\ \A d \in Client \ {c} : pc'[d] = pc[d]
    BY <1>5, <2>1 DEF DeleteClose, DeleteUnlink, Goto, RInv, TypeOK, Deleting
  <2>4. \A d \in Client \ {c} : pc[d] = "idle"
    BY <1>0, <2>3 DEF Alone
  <2> QED
    BY <1>0, <2>1, <2>2, <2>3, <2>4, AloneStays DEF EntryOnDisk, Emptied, Absent
<1>6. ASSUME NEW c \in Client, DeleteUnwatch(c)
      PROVE  (EntryOnDisk /\ Alone /\ Emptied /\ Absent)'
  <2>1. /\ Goto(c, "idle", 0) /\ pc[c] = "unlinked" /\ watched' = FALSE
        /\ UNCHANGED <<db, entry, file>>
    BY <1>6 DEF DeleteUnwatch, store_vars
  <2>2. entry = 0 /\ db = 0 /\ \A d \in Client \ {c} : pc[d] = "idle"
    BY <1>0, <2>1 DEF Emptied, Alone, Deleting
  <2>3. \A d \in Client : pc'[d] = "idle"
    BY <2>1, <2>2 DEF Goto, RInv, TypeOK
  <2> QED
    BY <2>1, <2>2, <2>3 DEF EntryOnDisk, Alone, Emptied, Absent, Deleting
<1>7. CASE evictIdle \/ CloseAll
  <2>1. entry # 0 /\ entry' = 0 /\ UNCHANGED <<db, pc, gone, watched>>
    BY <1>7 DEF evictIdle, CloseAll, client_vars
  <2> QED
    BY <1>0, <2>1 DEF EntryOnDisk, Alone, Emptied, Absent
<1>8. CASE TimePasses \/ UNCHANGED vars
  <2>1. UNCHANGED <<db, entry, file, pc, gone, watched>>
    BY <1>8 DEF TimePasses, vars, store_vars, client_vars
  <2> QED
    BY <1>0, <2>1 DEF EntryOnDisk, Alone, Emptied, Absent
<1>9. ASSUME NEW h \in Handle, Collect(h)
      PROVE  (EntryOnDisk /\ Alone /\ Emptied /\ Absent)'
  <2>1. /\ state[h] # "open" /\ file' = [file EXCEPT ![h] = 0]
        /\ UNCHANGED <<db, entry, pc, gone, watched>>
    BY <1>9 DEF Collect, client_vars
  <2>2. entry # 0 => entry \in Handle /\ entry # h
    BY <2>1 DEF RInv, HandlesOK
  <2>3. entry # 0 => file'[entry] = file[entry]
    BY <2>1, <2>2 DEF RInv, TypeOK
  <2> QED
    BY <1>0, <2>1, <2>3 DEF EntryOnDisk, Alone, Emptied, Absent
<1> QED
  BY <1>1, <1>2, <1>3, <1>4, <1>5, <1>6, <1>7, <1>8, <1>9
     DEF Next, Query, Peek, Index, Delete

\* As long as no deletion overlaps with another client, an open store is on the
\* file that is on disk, and a deleted project stays deleted.
THEOREM DiskCorrect == Spec => []DiskIsAsTheRouterHasIt
<1>1. Init => DiskInv
  BY DEF Init, DiskInv, EntryOnDisk, Alone, Emptied, Absent, Deleting
<1>2. RInv /\ DiskInv => DiskIsAsTheRouterHasIt
  <2>1. \A h \in Handle : h # 0
    BY DEF Handle
  <2> QED
    BY <2>1 DEF RInv, OneOpen, DiskInv, EntryOnDisk, Absent, DiskIsAsTheRouterHasIt
<1> QED
  BY <1>1, <1>2, RouterHolds, DiskNext, PTL DEF Spec
=============================================================================
