--------------------------- MODULE InvoiceStoreProofs ---------------------------
(***************************************************************************)
(* Proofs about InvoiceStore for any invoices, line items and prefixes.    *)
(***************************************************************************)
EXTENDS InvoiceStore, TLAPS

\* The handler is at a record exactly while it works on one, that record is not among
\* those it has still to come to, and nothing is left of the line items of another.
Control ==
  /\ current \notin todo
  /\ phase \in {"lines", "delete raw"} <=> current # NoInvoice
  /\ phase = "idle" => batch = {}
  /\ phase \in {"idle", "next record"} => \A l \in Lines : line[l] = "list"

\* What is live, stale or being moved was written; a copied object is archived.
MovesSound ==
  /\ live \subseteq written /\ archived \subseteq written
  /\ \A l \in Lines : stale[l] \subseteq InGroup(written, Group[l])
  /\ \A m \in moves : /\ m.key \in written
                      /\ m.copied => m.key \in archived

\* No attempt but the present one of an invoice can have used the present key.
KeysFresh ==
  /\ \A k \in written : k.try <= received[InvoiceOf[k.line]]
  /\ \A k \in written : InvoiceOf[k.line] \in todo => k.try < received[InvoiceOf[k.line]]
  /\ \A l \in Lines : At(l, "list") \/ At(l, "put") => KeyOf(l) \notin written
  /\ \A l \in Lines : At(l, "archive") => KeyOf(l) \in written

\* Every prefix that was ever written to has a newest object; it is live, and none of
\* the moves threatens it.
Survivor ==
  /\ \A k \in written : InGroup(newest, Group[k.line]) # {}
  /\ newest \subseteq live
  /\ \A m \in moves : m.key \notin newest

\* Records of the batch that were left without a failure have succeeded.
Progress ==
  /\ phase = "delete raw" => "successful" \in raw[current]
  /\ \A i \in batch \ (todo \cup failing \cup {current}) : "successful" \in raw[i]
  /\ \A i \in acked : "successful" \in raw[i]
  /\ \A i \in Invoices : "successful" \in raw[i] =>
       \A l \in LinesOf(i) : \E k \in written : k.line = l

\* What each line item of the record under way has still to archive: until it fails,
\* any live key of its prefix that is not of this very attempt is yet to be listed, is
\* among its stale keys, or is the object of a move of its own that is not over.
OwnKeys(i) == {KeyOf(s) : s \in LinesOf(i)}
Awaits(l, k) ==
  \/ line[l] \in {"list", "failed"}
  \/ line[l] = "put" /\ k \in stale[l]
  \/ line[l] = "archive" /\ \E m \in moves : m.by = KeyOf(l) /\ m.key = k
Superseding ==
  phase = "lines" =>
    \A l \in LinesOf(current) :
      \A k \in InGroup(live, Group[l]) : k \in OwnKeys(current) \/ Awaits(l, k)

IInv ==
  TypeOK /\ Control /\ MovesSound /\ KeysFresh /\ LineItemsKept /\ Survivor /\ Progress
  /\ Superseding

USE DEF Phases, LineStates, Folders, queueVars, recordVars, lineVars, objectVars, PutKey

LEMMA ReceivedTyped ==
  ASSUME TypeOK
  PROVE  \A l \in Lines : InvoiceOf[l] \in Invoices /\ received[InvoiceOf[l]] \in Nat
<1>1. received \in [Invoices -> Nat]
  BY DEF TypeOK
<1> QED
  BY <1>1, InvoiceAssumption

LEMMA KeyTyped == ASSUME TypeOK, NEW l \in Lines PROVE KeyOf(l) \in Key
  BY ReceivedTyped DEF KeyOf, Key

LEMMA TypeInit == Init => TypeOK
  BY InvoiceAssumption DEF Init, TypeOK

LEMMA TypeStep == TypeOK /\ Control /\ [Next]_vars => TypeOK'
<1> SUFFICES ASSUME TypeOK, Control, [Next]_vars PROVE TypeOK'
  OBVIOUS
<1> USE InvoiceAssumption
<1>1. CASE Receive
  <2>1. PICK b \in SUBSET {i \in queue : received[i] < MaxReceive[i]} :
          /\ batch' = b /\ todo' = b /\ queue' = queue \ b
          /\ received' = [i \in Invoices |-> received[i] + IF i \in b THEN 1 ELSE 0]
    BY <1>1 DEF Receive
  <2>2. /\ received \in [Invoices -> Nat] /\ MaxReceive \in [Invoices -> Nat \ {0}]
        /\ \A i \in Invoices : received[i] <= MaxReceive[i]
    BY DEF TypeOK
  <2>3. /\ received' \in [Invoices -> Nat]
        /\ \A i \in Invoices : received'[i] <= MaxReceive[i]
    BY <2>1, <2>2
  <2> QED
    BY <1>1, <2>1, <2>3 DEF Receive, Control, TypeOK
<1>2. ASSUME NEW i \in todo, StartRecord(i) PROVE TypeOK'
  BY <1>2 DEF StartRecord, TypeOK
<1>3. ASSUME NEW l \in Lines, ListStale(l) PROVE TypeOK'
  BY <1>3 DEF ListStale, At, InGroup, TypeOK
<1>4. ASSUME NEW l \in Lines, Put(l) PROVE TypeOK'
  <2>1. stale[l] \subseteq Key /\ moves \subseteq Move /\ KeyOf(l) \in Key
    BY KeyTyped DEF TypeOK
  <2>2. moves' \subseteq Move
    BY <1>4, <2>1 DEF Put, Move
  <2> QED
    BY <1>4, <2>1, <2>2 DEF Put, At, TypeOK
<1>5. ASSUME NEW l \in Lines, LineFails(l) PROVE TypeOK'
  BY <1>5, KeyTyped DEF LineFails, At, TypeOK
<1>6. ASSUME NEW m \in moves, CopyStale(m) PROVE TypeOK'
  <2>1. m \in Move
    BY DEF TypeOK
  <2>2. [by |-> m.by, key |-> m.key, copied |-> TRUE] \in Move
    BY <2>1 DEF Move
  <2> QED
    BY <1>6, <2>1, <2>2 DEF CopyStale, Move, TypeOK
<1>7. ASSUME NEW m \in moves, DeleteStale(m) PROVE TypeOK'
  BY <1>7 DEF DeleteStale, TypeOK
<1>8. ASSUME NEW m \in moves, MoveFails(m) PROVE TypeOK'
  BY <1>8 DEF MoveFails, TypeOK
<1>9. CASE RecordFails
  BY <1>9 DEF RecordFails, LeaveRecord, Control, TypeOK
<1>10. CASE CopyRaw
  BY <1>10 DEF CopyRaw, TypeOK
<1>11. CASE DeleteRaw
  BY <1>11 DEF DeleteRaw, LeaveRecord, TypeOK
<1>12. CASE EndBatch
  BY <1>12 DEF EndBatch, Control, TypeOK
<1>13. CASE Crash
  BY <1>13 DEF Crash, LeaveRecord, TypeOK
<1>14. CASE Recycle
  BY <1>14 DEF Recycle, TypeOK
<1>15. ASSUME NEW i \in queue, Park(i) PROVE TypeOK'
  BY <1>15 DEF Park, TypeOK
<1>16. CASE UNCHANGED vars
  BY <1>16 DEF vars, TypeOK
<1> QED
  BY <1>1, <1>2, <1>3, <1>4, <1>5, <1>6, <1>7, <1>8, <1>9, <1>10, <1>11, <1>12, <1>13, <1>14, <1>15, <1>16 DEF Next, Handle, StoreLine

LEMMA ControlStep == TypeOK /\ Control /\ [Next]_vars => Control'
<1> SUFFICES ASSUME TypeOK, Control, [Next]_vars PROVE Control'
  OBVIOUS
<1> USE InvoiceAssumption DEF Control, TypeOK
<1>1. CASE Receive
  <2>1. /\ batch' = todo' /\ phase' = "next record" /\ line' = line /\ current' = current
        /\ phase = "idle"
    BY <1>1 DEF Receive
  <2>2. todo' \subseteq Invoices
    BY <1>1 DEF Receive
  <2> QED
    BY <2>1, <2>2
<1>2. ASSUME NEW i \in todo, StartRecord(i) PROVE Control'
  BY <1>2 DEF StartRecord
<1>3. CASE StoreLine
  <2>1. ASSUME NEW l \in Lines, ListStale(l) \/ Put(l) \/ LineFails(l) PROVE Control'
    BY <2>1 DEF ListStale, Put, LineFails, At
  <2>2. ASSUME NEW m \in moves, CopyStale(m) \/ DeleteStale(m) \/ MoveFails(m) PROVE Control'
    BY <2>2 DEF CopyStale, DeleteStale, MoveFails
  <2> QED
    BY <1>3, <2>1, <2>2 DEF StoreLine
<1>4. CASE RecordFails
  BY <1>4 DEF RecordFails, LeaveRecord
<1>5. CASE CopyRaw
  BY <1>5 DEF CopyRaw
<1>6. CASE DeleteRaw
  BY <1>6 DEF DeleteRaw, LeaveRecord
<1>7. CASE EndBatch
  BY <1>7 DEF EndBatch
<1>8. CASE Crash
  BY <1>8 DEF Crash, LeaveRecord
<1>9. CASE Recycle \/ (\E i \in queue : Park(i)) \/ UNCHANGED vars
  BY <1>9 DEF Recycle, Park, vars
<1> QED
  BY <1>1, <1>2, <1>3, <1>4, <1>5, <1>6, <1>7, <1>8, <1>9 DEF Next, Handle

\* A stale key was listed, so it was written, and under the prefix of the line item.
LEMMA MovesSoundStep == TypeOK /\ MovesSound /\ [Next]_vars => MovesSound'
<1> SUFFICES ASSUME TypeOK, MovesSound, [Next]_vars PROVE MovesSound'
  OBVIOUS
<1> USE DEF MovesSound, InGroup
<1>1. ASSUME NEW l \in Lines, ListStale(l) PROVE MovesSound'
  BY <1>1 DEF ListStale, TypeOK
<1>2. ASSUME NEW l \in Lines, Put(l) PROVE MovesSound'
  <2>1. \A m \in moves' : m \in moves \/ (m.key \in stale[l] /\ m.copied = FALSE)
    BY <1>2 DEF Put
  <2> QED
    BY <1>2, <2>1 DEF Put, TypeOK
<1>3. ASSUME NEW l \in Lines, LineFails(l) PROVE MovesSound'
  BY <1>3 DEF LineFails, TypeOK
<1>4. ASSUME NEW m \in moves, CopyStale(m) PROVE MovesSound'
  BY <1>4 DEF CopyStale
<1>5. ASSUME NEW m \in moves, DeleteStale(m) PROVE MovesSound'
  BY <1>5 DEF DeleteStale
<1>6. ASSUME NEW m \in moves, MoveFails(m) PROVE MovesSound'
  BY <1>6 DEF MoveFails
<1>7. CASE RecordFails \/ DeleteRaw \/ Crash
  BY <1>7 DEF RecordFails, DeleteRaw, Crash, LeaveRecord
<1>8. CASE Recycle
  BY <1>8 DEF Recycle
<1>9. CASE Receive \/ (\E i \in todo : StartRecord(i)) \/ CopyRaw \/ EndBatch
           \/ (\E i \in queue : Park(i)) \/ UNCHANGED vars
  BY <1>9 DEF Receive, StartRecord, CopyRaw, EndBatch, Park, vars
<1> QED
  BY <1>1, <1>2, <1>3, <1>4, <1>5, <1>6, <1>7, <1>8, <1>9 DEF Next, Handle, StoreLine

\* Only a copied object is deleted, and nothing leaves the archive.
LEMMA KeptStep == MovesSound /\ LineItemsKept /\ [Next]_vars => LineItemsKept'
<1> SUFFICES ASSUME MovesSound, LineItemsKept, [Next]_vars PROVE LineItemsKept'
  OBVIOUS
<1> USE DEF MovesSound, LineItemsKept
<1>1. CASE StoreLine
  BY <1>1 DEF StoreLine, ListStale, Put, LineFails, CopyStale, DeleteStale, MayDelete, MoveFails
<1>2. CASE Receive \/ (\E i \in todo : StartRecord(i)) \/ RecordFails \/ CopyRaw \/ DeleteRaw
           \/ EndBatch \/ Crash \/ Recycle \/ (\E i \in queue : Park(i)) \/ UNCHANGED vars
  BY <1>2 DEF Receive, StartRecord, RecordFails, CopyRaw, DeleteRaw, EndBatch, Crash, Recycle,
              Park, vars
<1> QED
  BY <1>1, <1>2 DEF Next, Handle

\* The key of a put is new, so no move can be after it; and stale keys are of the prefix
\* of which it is now the newest.
LEMMA SurvivorStep ==
  TypeOK /\ MovesSound /\ KeysFresh /\ Survivor /\ [Next]_vars => Survivor'
<1> SUFFICES ASSUME TypeOK, MovesSound, KeysFresh, Survivor, [Next]_vars PROVE Survivor'
  OBVIOUS
<1> USE DEF Survivor, InGroup
<1>1. ASSUME NEW l \in Lines, PutKey(KeyOf(l)), KeyOf(l) \notin written,
             \A m \in moves' : m \in moves \/ m.key \in stale[l]
      PROVE Survivor'
  <2>1. /\ live' = live \cup {KeyOf(l)} /\ written' = written \cup {KeyOf(l)}
        /\ newest' = {n \in newest : Group[n.line] # Group[l]} \cup {KeyOf(l)}
    BY <1>1 DEF KeyOf
  <2>2. stale[l] \subseteq written /\ \A k \in stale[l] : Group[k.line] = Group[l]
    BY DEF MovesSound
  <2>3. \A m \in moves : m.key \in written
    BY DEF MovesSound
  <2>4. KeyOf(l).line = l
    BY DEF KeyOf
  <2>5. \A m \in moves' : m.key \notin newest'
    BY <1>1, <2>1, <2>2, <2>3
  <2>6. newest' \subseteq live'
    BY <2>1
  <2>7. ASSUME NEW k \in written' PROVE InGroup(newest', Group[k.line]) # {}
    <3>1. CASE Group[k.line] = Group[l]
      BY <2>1, <2>4, <3>1
    <3>2. CASE Group[k.line] # Group[l]
      <4>1. k \in written
        BY <2>1, <2>4, <3>2
      <4>2. PICK n \in newest : Group[n.line] = Group[k.line]
        BY <4>1
      <4> QED
        BY <2>1, <3>2, <4>2
    <3> QED
      BY <3>1, <3>2
  <2> QED
    BY <2>5, <2>6, <2>7
<1>2. ASSUME NEW l \in Lines, Put(l) PROVE Survivor'
  BY <1>1, <1>2 DEF Put, KeysFresh
<1>3. ASSUME NEW l \in Lines, LineFails(l) PROVE Survivor'
  <2>1. CASE UNCHANGED <<live, written, newest>>
    BY <1>3, <2>1 DEF LineFails
  <2>2. CASE line[l] = "put" /\ PutKey(KeyOf(l))
    <3>1. KeyOf(l) \notin written
      BY <1>3, <2>2 DEF LineFails, At, KeysFresh
    <3> QED
      BY <1>1, <1>3, <2>2, <3>1 DEF LineFails
  <2> QED
    BY <1>3, <2>1, <2>2 DEF LineFails
<1>4. ASSUME NEW m \in moves, CopyStale(m) PROVE Survivor'
  BY <1>4 DEF CopyStale
<1>5. ASSUME NEW m \in moves, DeleteStale(m) PROVE Survivor'
  BY <1>5 DEF DeleteStale
<1>6. ASSUME NEW m \in moves, MoveFails(m) PROVE Survivor'
  BY <1>6 DEF MoveFails
<1>7. CASE Recycle
  BY <1>7 DEF Recycle
<1>8. CASE Receive \/ (\E i \in todo : StartRecord(i)) \/ (\E l \in Lines : ListStale(l))
           \/ RecordFails \/ CopyRaw \/ DeleteRaw \/ EndBatch \/ Crash
           \/ (\E i \in queue : Park(i)) \/ UNCHANGED vars
  BY <1>8 DEF Receive, StartRecord, ListStale, RecordFails, CopyRaw, DeleteRaw, EndBatch, Crash,
              Park, vars
<1> QED
  BY <1>2, <1>3, <1>4, <1>5, <1>6, <1>7, <1>8 DEF Next, Handle, StoreLine

\* An attempt counts up before it writes, and a line item writes once in an attempt.
LEMMA KeysFreshStep ==
  TypeOK /\ Control /\ KeysFresh /\ [Next]_vars => KeysFresh'
<1> SUFFICES ASSUME TypeOK, Control, KeysFresh, [Next]_vars PROVE KeysFresh'
  OBVIOUS
<1> USE InvoiceAssumption DEF KeysFresh, At, LinesOf, KeyOf
<1>1. written \subseteq Key /\ todo \subseteq Invoices
  BY DEF TypeOK
<1>2. \A l \in Lines : InvoiceOf[l] \in Invoices /\ received[InvoiceOf[l]] \in Nat
  BY ReceivedTyped
<1>3. \A k \in written : k.line \in Lines /\ k.try \in Nat
  BY <1>1 DEF Key
<1>4. CASE Receive
  <2>1. PICK b \in SUBSET queue :
          /\ todo' = b
          /\ received' = [i \in Invoices |-> received[i] + IF i \in b THEN 1 ELSE 0]
    BY <1>4 DEF Receive
  <2>2. phase' = "next record" /\ written' = written
    BY <1>4 DEF Receive
  <2>3. \A k \in written : received'[InvoiceOf[k.line]] =
                            received[InvoiceOf[k.line]] + IF InvoiceOf[k.line] \in b THEN 1 ELSE 0
    BY <1>2, <1>3, <2>1
  <2>4. \A k \in written : received[InvoiceOf[k.line]] \in Nat
    BY <1>2, <1>3
  <2>5. ASSUME NEW k \in written
        PROVE  /\ k.try <= received'[InvoiceOf[k.line]]
               /\ InvoiceOf[k.line] \in b => k.try < received'[InvoiceOf[k.line]]
    <3> DEFINE n == received[InvoiceOf[k.line]]
               n1 == received'[InvoiceOf[k.line]]
    <3>1. k.try \in Nat /\ n \in Nat /\ k.try <= n
      BY <1>3, <2>4
    <3>2. n1 = n + IF InvoiceOf[k.line] \in b THEN 1 ELSE 0
      BY <2>3
    <3> HIDE DEF n, n1
    <3>3. k.try <= n1 /\ (InvoiceOf[k.line] \in b => k.try < n1)
      BY <3>1, <3>2
    <3> QED
      BY <3>3 DEF n1
  <2> QED
    BY <2>1, <2>2, <2>5
<1>5. ASSUME NEW i \in todo, StartRecord(i) PROVE KeysFresh'
  <2>1. \A k \in written : InvoiceOf[k.line] = i => k.try < received[i]
    BY <1>3
  <2>2. \A l \in Lines : InvoiceOf[l] = i => KeyOf(l) \notin written
    BY <1>2, <1>3, <2>1
  <2>3. \A l \in Lines : line[l] = "list"
    BY <1>5 DEF StartRecord, Control
  <2> QED
    BY <1>5, <2>2, <2>3 DEF StartRecord
<1>6. ASSUME NEW l \in Lines, At(l, "list") \/ At(l, "put"),
             live' = live \cup {KeyOf(l)}, written' = written \cup {KeyOf(l)},
             line' \in [Lines -> LineStates], line'[l] \in {"archive", "failed"},
             \A x \in Lines \ {l} : line'[x] = line[x],
             UNCHANGED <<phase, current, todo, received>>
      PROVE KeysFresh'
  <2>1. \A k \in written' : k \in written \/ k = [line |-> l, try |-> received[InvoiceOf[l]]]
    BY <1>6
  <2>2. InvoiceOf[l] = current /\ current \notin todo
    BY <1>6 DEF Control
  <2>3. \A x \in Lines \ {l} : KeyOf(x)' = KeyOf(x) /\ KeyOf(x) # KeyOf(l)
    BY <1>6
  <2>4. KeyOf(l)' \in written'
    BY <1>6
  <2>5. \A k \in written' : k.try <= received'[InvoiceOf[k.line]]
    BY <1>2, <1>3, <1>6, <2>1
  <2>6. \A k \in written' : InvoiceOf[k.line] \in todo' => k.try < received'[InvoiceOf[k.line]]
    BY <1>2, <1>3, <1>6, <2>1, <2>2
  <2>7. \A x \in Lines : At(x, "list")' \/ At(x, "put")' => KeyOf(x)' \notin written'
    BY <1>6, <2>3
  <2>8. \A x \in Lines : At(x, "archive")' => KeyOf(x)' \in written'
    BY <1>6, <2>3, <2>4
  <2> QED
    BY <2>5, <2>6, <2>7, <2>8
<1>7. ASSUME NEW l \in Lines, Put(l) PROVE KeysFresh'
  BY <1>6, <1>7 DEF Put, TypeOK
<1>8. ASSUME NEW l \in Lines, LineFails(l) PROVE KeysFresh'
  <2>1. CASE UNCHANGED <<live, written>>
    BY <1>8, <2>1 DEF LineFails, TypeOK
  <2>2. CASE line[l] = "put" /\ PutKey(KeyOf(l))
    BY <1>6, <1>8, <2>2 DEF LineFails, TypeOK
  <2> QED
    BY <1>8, <2>1, <2>2 DEF LineFails
<1>9. ASSUME NEW l \in Lines, ListStale(l) PROVE KeysFresh'
  BY <1>9 DEF ListStale, TypeOK
<1>10. ASSUME NEW m \in moves, CopyStale(m) \/ DeleteStale(m) \/ MoveFails(m) PROVE KeysFresh'
  BY <1>10 DEF CopyStale, DeleteStale, MoveFails, TypeOK
<1>11. CASE RecordFails \/ CopyRaw \/ DeleteRaw \/ EndBatch \/ Crash
  BY <1>11 DEF RecordFails, CopyRaw, DeleteRaw, EndBatch, Crash, LeaveRecord, Control
<1>12. CASE Recycle \/ (\E i \in queue : Park(i)) \/ UNCHANGED vars
  BY <1>12 DEF Recycle, Park, vars
<1> QED
  BY <1>4, <1>5, <1>7, <1>8, <1>9, <1>10, <1>11, <1>12 DEF Next, Handle, StoreLine

\* A record is left without a failure only by moving its raw invoice, and that is done
\* only once each of its line items has written its key.
LEMMA ProgressStep ==
  TypeOK /\ Control /\ KeysFresh /\ Progress /\ [Next]_vars => Progress'
<1> SUFFICES ASSUME TypeOK, Control, KeysFresh, Progress, [Next]_vars PROVE Progress'
  OBVIOUS
<1> USE InvoiceAssumption DEF Progress
<1>1. CASE Receive
  <2>1. batch' = todo' /\ phase' = "next record" /\ UNCHANGED <<acked, raw, written>>
    BY <1>1 DEF Receive
  <2> QED
    BY <2>1
<1>2. ASSUME NEW i \in todo, StartRecord(i) PROVE Progress'
  <2>1. current = NoInvoice /\ batch \subseteq Invoices
    BY <1>2 DEF StartRecord, Control, TypeOK
  <2>2. batch' \ (todo' \cup failing' \cup {current'}) \subseteq batch \ (todo \cup failing \cup {current})
    <3>1. todo' = todo \ {i} /\ current' = i /\ batch' = batch /\ failing' = failing
      BY <1>2 DEF StartRecord
    <3>2. NoInvoice \notin batch
      BY <2>1
    <3> QED
      BY ONLY <2>1, <3>1, <3>2
  <2>3. phase' = "lines" /\ UNCHANGED <<acked, raw, written>>
    BY <1>2 DEF StartRecord
  <2> QED
    BY <2>2, <2>3
<1>3. CASE StoreLine
  <2>1. written \subseteq written'
    BY <1>3 DEF StoreLine, ListStale, Put, LineFails, CopyStale, DeleteStale, MoveFails
  <2>2. UNCHANGED <<phase, recordVars, acked, raw>>
    BY <1>3 DEF StoreLine, ListStale, Put, LineFails, CopyStale, DeleteStale, MoveFails
  <2> QED
    BY <2>1, <2>2
<1>4. CASE RecordFails
  BY <1>4 DEF RecordFails, LeaveRecord
<1>5. CASE CopyRaw
  <2>1. \A l \in LinesOf(current) : KeyOf(l) \in written /\ KeyOf(l).line = l
    BY <1>5 DEF CopyRaw, Stored, KeysFresh, At, KeyOf, LinesOf
  <2>2. \A i \in Invoices : "successful" \in raw[i] => "successful" \in raw'[i]
    BY <1>5 DEF CopyRaw, TypeOK
  <2>3. \A i \in Invoices : i # current => raw'[i] = raw[i]
    BY <1>5 DEF CopyRaw, TypeOK
  <2>4. current \in Invoices /\ "successful" \in raw'[current]
    BY <1>5 DEF CopyRaw, Control, TypeOK
  <2>5. UNCHANGED <<recordVars, acked, written>> /\ phase' = "delete raw"
    BY <1>5 DEF CopyRaw
  <2>6. acked \subseteq Invoices /\ batch \subseteq Invoices
    BY DEF TypeOK
  <2> QED
    BY <2>1, <2>2, <2>3, <2>4, <2>5, <2>6
<1>6. CASE DeleteRaw
  <2>1. \A i \in Invoices : "successful" \in raw[i] <=> "successful" \in raw'[i]
    BY <1>6 DEF DeleteRaw, TypeOK
  <2>2. acked \subseteq Invoices /\ batch \subseteq Invoices
    BY DEF TypeOK
  <2> QED
    BY <1>6, <2>1, <2>2 DEF DeleteRaw, LeaveRecord
<1>7. CASE EndBatch
  <2>1. current = NoInvoice
    BY <1>7 DEF EndBatch, Control
  <2>2. \A i \in acked' : i \in acked \/ (i \in batch /\ failing = {})
    BY <1>7 DEF EndBatch, Keeps
  <2> QED
    <3>1. acked \subseteq Invoices /\ batch \subseteq Invoices
      BY DEF TypeOK
    <3>2. /\ todo = {} /\ batch' = {} /\ phase' = "idle"
          /\ UNCHANGED <<raw, written, current>>
      BY <1>7 DEF EndBatch
    <3>3. /\ \A i \in batch \ (todo \cup failing \cup {current}) : "successful" \in raw[i]
          /\ \A i \in acked : "successful" \in raw[i]
          /\ NoInvoice \notin batch
      BY <3>1
    <3>4. \A i \in acked' : "successful" \in raw[i]
      BY ONLY <2>1, <2>2, <3>2, <3>3
    <3> QED
      BY <3>2, <3>4
<1>8. CASE Crash
  BY <1>8 DEF Crash, LeaveRecord
<1>9. CASE Recycle \/ (\E i \in queue : Park(i)) \/ UNCHANGED vars
  BY <1>9 DEF Recycle, Park, vars
<1> QED
  BY <1>1, <1>2, <1>3, <1>4, <1>5, <1>6, <1>7, <1>8, <1>9 DEF Next, Handle

\* Own keys stay own while the record is under way, and only a rejected copy or delete
\* takes a move away from a key that is still live: it fails the line item.
LEMMA SupersedingStep ==
  TypeOK /\ Control /\ Superseding /\ [Next]_vars => Superseding'
<1> SUFFICES ASSUME TypeOK, Control, Superseding, [Next]_vars,
                    phase' = "lines",
                    NEW l \in LinesOf(current)', NEW k \in InGroup(live, Group[l])'
             PROVE  k \in OwnKeys(current)' \/ Awaits(l, k)'
  BY DEF Superseding
<1> USE DEF InGroup
<1>1. l \in Lines /\ line \in [Lines -> LineStates] /\ stale \in [Lines -> SUBSET Key]
  BY DEF TypeOK, LinesOf
<1>2. ASSUME NEW i \in todo, StartRecord(i) PROVE Awaits(l, k)'
  BY <1>1, <1>2 DEF StartRecord, Control, Awaits
<1>3. ASSUME phase = "lines", UNCHANGED <<current, received>>
      PROVE  /\ l \in LinesOf(current)
             /\ OwnKeys(current)' = OwnKeys(current)
             /\ \A x \in Lines : KeyOf(x)' = KeyOf(x)
             /\ k \in live => k \in OwnKeys(current) \/ Awaits(l, k)
  BY <1>3 DEF LinesOf, OwnKeys, KeyOf, Superseding
<1>4. ASSUME NEW x \in Lines, ListStale(x) PROVE k \in OwnKeys(current)' \/ Awaits(l, k)'
  BY <1>1, <1>3, <1>4 DEF ListStale, At, Awaits
<1>5. ASSUME NEW x \in Lines, Put(x) PROVE k \in OwnKeys(current)' \/ Awaits(l, k)'
  <2>1. /\ x \in LinesOf(current) /\ phase = "lines"
        /\ live' = live \cup {KeyOf(x)}
        /\ moves \subseteq moves'
        /\ \A z \in stale[x] : [by |-> KeyOf(x), key |-> z, copied |-> FALSE] \in moves'
        /\ line' = [line EXCEPT ![x] = "archive"]
        /\ stale' = [stale EXCEPT ![x] = {}]
        /\ UNCHANGED <<current, received>>
    BY <1>5 DEF Put, At
  <2>2. k \in live \/ k \in OwnKeys(current)
    BY <2>1 DEF OwnKeys
  <2>3. ASSUME Awaits(l, k), l # x PROVE Awaits(l, k)'
    BY <1>1, <1>3, <2>1, <2>3 DEF Awaits
  <2>4. ASSUME Awaits(l, k), l = x PROVE Awaits(l, k)'
    <3>1. k \in stale[x] /\ line'[l] = "archive"
      BY <1>1, <1>5, <2>1, <2>4 DEF Awaits, Put, At
    <3>2. KeyOf(l)' = KeyOf(x)
      BY <1>3, <2>1, <2>4
    <3> QED
      BY <2>1, <3>1, <3>2 DEF Awaits
  <2> QED
    BY <1>3, <2>1, <2>2, <2>3, <2>4
<1>6. ASSUME NEW x \in Lines, LineFails(x) PROVE k \in OwnKeys(current)' \/ Awaits(l, k)'
  <2>1. /\ x \in LinesOf(current) /\ phase = "lines"
        /\ live' \subseteq live \cup {KeyOf(x)}
        /\ line' = [line EXCEPT ![x] = "failed"]
        /\ stale' = [stale EXCEPT ![x] = {}]
        /\ UNCHANGED <<current, received, moves>>
    BY <1>6 DEF LineFails, At
  <2>2. k \in live \/ k \in OwnKeys(current)
    BY <2>1 DEF OwnKeys
  <2>3. Awaits(l, k) => Awaits(l, k)'
    BY <1>1, <1>3, <2>1 DEF Awaits
  <2> QED
    BY <1>3, <2>1, <2>2, <2>3
<1>7. ASSUME NEW m \in moves, CopyStale(m) PROVE k \in OwnKeys(current)' \/ Awaits(l, k)'
  <2>1. /\ UNCHANGED <<phase, current, received, line, stale, live>>
        /\ [by |-> m.by, key |-> m.key, copied |-> TRUE] \in moves'
        /\ moves \ {m} \subseteq moves'
    BY <1>7 DEF CopyStale
  <2>2. Awaits(l, k) => Awaits(l, k)'
    BY <1>1, <1>3, <2>1 DEF Awaits
  <2> QED
    BY <1>3, <2>1, <2>2
<1>8. ASSUME NEW m \in moves, DeleteStale(m) PROVE k \in OwnKeys(current)' \/ Awaits(l, k)'
  <2>1. /\ UNCHANGED <<phase, current, received, line, stale>>
        /\ k \in live /\ k # m.key
        /\ moves' = moves \ {m}
    BY <1>8 DEF DeleteStale
  <2>2. Awaits(l, k) => Awaits(l, k)'
    BY <1>1, <1>3, <2>1 DEF Awaits
  <2> QED
    BY <1>3, <2>1, <2>2
<1>9. ASSUME NEW m \in moves, MoveFails(m) PROVE k \in OwnKeys(current)' \/ Awaits(l, k)'
  <2>1. /\ UNCHANGED <<phase, current, received, stale, live>>
        /\ moves' = moves \ {m}
        /\ line' = [x \in Lines |->
                      IF m.by = KeyOf(x) /\ line[x] = "archive" THEN "failed" ELSE line[x]]
    BY <1>9 DEF MoveFails
  <2>2. Awaits(l, k) => Awaits(l, k)'
    BY <1>1, <1>3, <2>1 DEF Awaits
  <2> QED
    BY <1>3, <2>1, <2>2
<1>10. CASE Receive \/ RecordFails \/ CopyRaw \/ DeleteRaw \/ EndBatch \/ Crash
  BY <1>10 DEF Receive, RecordFails, CopyRaw, DeleteRaw, EndBatch, Crash
<1>11. CASE Recycle \/ (\E i \in queue : Park(i)) \/ UNCHANGED vars
  <2>1. phase = "lines" => UNCHANGED <<phase, current, received, line, stale, moves, live>>
    BY <1>11 DEF Recycle, Park, vars
  <2>2. phase = "lines"
    BY <1>11 DEF Recycle, Park, vars
  <2>3. Awaits(l, k) => Awaits(l, k)'
    BY <1>1, <1>3, <2>1, <2>2 DEF Awaits
  <2> QED
    BY <1>3, <2>1, <2>2, <2>3
<1> QED
  BY <1>2, <1>4, <1>5, <1>6, <1>7, <1>8, <1>9, <1>10, <1>11 DEF Next, Handle, StoreLine

LEMMA Inductive == Spec => []IInv
<1>1. Init => IInv
  BY TypeInit, InvoiceAssumption
  DEF Init, IInv, Control, MovesSound, KeysFresh, LineItemsKept, Survivor, Progress, At, LinesOf,
      Superseding
<1>2. IInv /\ [Next]_vars => IInv'
  BY TypeStep, ControlStep, MovesSoundStep, KeysFreshStep, KeptStep, SurvivorStep, ProgressStep,
     SupersedingStep
  DEF IInv
<1> QED
  BY <1>1, <1>2, PTL DEF Spec

--------------------------------------------------------------------------------
\* Every variable keeps its type, whatever the invoices and their line items.
THEOREM Typed == Spec => []TypeOK
<1> QED
  BY Inductive, PTL DEF IInv

\* No failure between the copy and the delete of moveS3 makes a stored line item vanish.
THEOREM NothingVanishes == Spec => []LineItemsKept
<1> QED
  BY Inductive, PTL DEF IInv

\* Whatever supersedes what, a month, vendor and event once billed stays billed: any
\* number of invoices, of line items with one prefix, of attempts and left-over moves.
THEOREM StaysBilled == Spec => []GroupsStayBilled
<1>1. IInv => GroupsStayBilled
  BY DEF IInv, Survivor, GroupsStayBilled, InGroup
<1> QED
  BY <1>1, Inductive, PTL

\* A raw invoice is filed as successful, and its message deleted, only when all its line
\* items were written and their months are billed.
THEOREM SuccessIsBilled == Spec => []SuccessfulMeansBilled
<1>1. IInv => SuccessfulMeansBilled
  <2>1. IInv => GroupsStayBilled
    BY DEF IInv, Survivor, GroupsStayBilled, InGroup
  <2> QED
    BY <2>1, InvoiceAssumption
    DEF IInv, TypeOK, Progress, GroupsStayBilled, SuccessfulMeansBilled, LinesOf
<1> QED
  BY <1>1, Inductive, PTL

\* An invoice succeeds only when, under the prefix of each of its line items, nothing is
\* live but what this attempt wrote, whoever put the rest there and however many moves
\* of earlier attempts are left over (the record "staleItemKeys" of store-line-item.ts).
THEOREM SuccessSupersedes == Spec => SupersededArchived
<1>1. IInv /\ [Next]_vars =>
        \A i \in Invoices : phase = "lines" /\ raw'[i] # raw[i] =>
          \A l \in LinesOf(i) : InGroup(live, Group[l]) \subseteq {KeyOf(s) : s \in LinesOf(i)}
  <2> SUFFICES ASSUME IInv, [Next]_vars, NEW i \in Invoices, phase = "lines", raw'[i] # raw[i],
                      NEW l \in LinesOf(i), NEW k \in InGroup(live, Group[l])
               PROVE  k \in OwnKeys(i)
    BY DEF OwnKeys
  <2>1. CopyRaw
    <3>1. raw' # raw
      OBVIOUS
    <3> QED
      BY <3>1 DEF Next, Handle, StoreLine, Receive, StartRecord, ListStale, Put, LineFails,
                  CopyStale, DeleteStale, MoveFails, RecordFails, DeleteRaw, EndBatch, Crash,
                  Recycle, Park, vars
  <2>2. i = current
    BY <2>1 DEF CopyRaw, IInv, TypeOK
  <2>3. line[l] = "archive" /\ \A m \in moves : m.by # KeyOf(l)
    BY <2>1, <2>2 DEF CopyRaw, Stored
  <2> QED
    BY <2>2, <2>3 DEF IInv, Superseding, Awaits
<1> QED
  BY <1>1, Inductive, PTL DEF Spec, SupersededArchived

--------------------------------------------------------------------------------
\* BillingLedger

LEMMA KeyInVersions ==
  ASSUME TypeOK, NEW l \in Lines
  PROVE  KeyOf(l) \in Versions /\ KeyOf(l).line = l
<1>1. /\ InvoiceOf[l] \in Invoices
      /\ received[InvoiceOf[l]] \in Nat /\ MaxReceive[InvoiceOf[l]] \in Nat
      /\ received[InvoiceOf[l]] <= MaxReceive[InvoiceOf[l]]
  BY InvoiceAssumption, ReceivedTyped DEF TypeOK
<1>2. KeyOf(l) \in [line : {l}, try : 0..MaxReceive[InvoiceOf[l]]]
  BY <1>1 DEF KeyOf
<1> QED
  BY <1>2 DEF Versions, KeyOf

\* Keys stay within the attempts that the queue allows.
Attempts == written \subseteq Versions

LEMMA AttemptsStep == TypeOK /\ Attempts /\ [Next]_vars => Attempts'
<1> SUFFICES ASSUME TypeOK, Attempts, [Next]_vars PROVE Attempts'
  OBVIOUS
<1>1. written' = written \/ \E l \in Lines : written' = written \cup {KeyOf(l)}
  BY DEF Next, Handle, StoreLine, Receive, StartRecord, ListStale, Put, LineFails, CopyStale,
         DeleteStale, MoveFails, RecordFails, CopyRaw, DeleteRaw, EndBatch, Crash, Recycle, Park,
         vars
<1> QED
  BY <1>1, KeyInVersions DEF Attempts, Versions

LEMMA LedgerBill ==
  ASSUME IInv, Attempts, NEW l \in Lines, PutKey(KeyOf(l)), KeyOf(l) \notin written,
         archived' = archived
  PROVE  Ledger!Bill(KeyOf(l)) /\ KeyOf(l) \in Versions
<1> DEFINE v == KeyOf(l)
           G == [x \in Versions |-> Group[x.line]]
<1>1. v \in Versions
  BY KeyInVersions DEF IInv
<1>2. newest \subseteq Versions
  BY DEF IInv, TypeOK, Attempts
<1>3. {n \in newest : G[n] # G[v]} = {n \in newest : Group[n.line] # Group[v.line]}
  BY <1>1, <1>2
<1>4. v \notin live \cup archived
  BY DEF IInv, MovesSound
<1> QED
  BY <1>1, <1>3, <1>4 DEF Ledger!Bill

LEMMA LedgerStep ==
  ASSUME IInv, Attempts, [Next]_vars
  PROVE  [Ledger!Next]_<<live, archived, newest>>
<1> USE DEF Ledger!Next
<1>0. live \subseteq Versions
  BY DEF IInv, MovesSound, Attempts
<1>1. ASSUME NEW l \in Lines, Put(l) PROVE Ledger!Next
  <2>1. KeyOf(l) \notin written /\ PutKey(KeyOf(l)) /\ archived' = archived
    BY <1>1 DEF Put, IInv, KeysFresh
  <2> QED
    BY <2>1, LedgerBill
<1>2. ASSUME NEW l \in Lines, LineFails(l) PROVE [Ledger!Next]_<<live, archived, newest>>
  <2>1. CASE UNCHANGED <<live, written, newest>>
    BY <1>2, <2>1 DEF LineFails
  <2>2. CASE line[l] = "put" /\ PutKey(KeyOf(l))
    <3>1. KeyOf(l) \notin written /\ archived' = archived
      BY <1>2, <2>2 DEF LineFails, At, IInv, KeysFresh
    <3> QED
      BY <2>2, <3>1, LedgerBill
  <2> QED
    BY <1>2, <2>1, <2>2 DEF LineFails
<1>3. ASSUME NEW m \in moves, CopyStale(m) PROVE Ledger!Next
  <2>1. m.key \in live /\ m.key \notin newest
    BY <1>3 DEF CopyStale, IInv, Survivor
  <2>2. archived' = archived \cup {m.key} /\ UNCHANGED <<live, newest>>
    BY <1>3 DEF CopyStale
  <2> QED
    BY <1>0, <2>1, <2>2 DEF Ledger!Archive
<1>4. ASSUME NEW m \in moves, DeleteStale(m) PROVE Ledger!Next
  <2>1. m.key \in archived /\ m.key \notin newest /\ m.key \in Versions
    BY <1>4 DEF DeleteStale, MayDelete, IInv, MovesSound, Survivor, Attempts
  <2>2. live' = live \ {m.key} /\ UNCHANGED <<archived, newest>>
    BY <1>4 DEF DeleteStale
  <2> QED
    BY <2>1, <2>2 DEF Ledger!Retire
<1>5. ASSUME NEW m \in moves, MoveFails(m) PROVE UNCHANGED <<live, archived, newest>>
  BY <1>5 DEF MoveFails
<1>6. CASE Receive \/ (\E i \in todo : StartRecord(i)) \/ (\E l \in Lines : ListStale(l))
           \/ RecordFails \/ CopyRaw \/ DeleteRaw \/ EndBatch \/ Crash \/ Recycle
           \/ (\E i \in queue : Park(i)) \/ UNCHANGED vars
  BY <1>6 DEF Receive, StartRecord, ListStale, RecordFails, CopyRaw, DeleteRaw, EndBatch, Crash,
              Recycle, Park, vars
<1> QED
  BY <1>1, <1>2, <1>3, <1>4, <1>5, <1>6 DEF Next, Handle, StoreLine

\* store-standardised-invoices implements the ledger: each of its steps bills, archives or
\* retires one line item, or changes nothing the views can see, and the line item stored
\* last under a month, vendor and event is never retired, however attempts interleave.
THEOREM ImplementsLedger == Spec => KeepsNewest
<1>1. Init => Ledger!Init /\ Attempts
  BY DEF Init, Ledger!Init, Attempts
<1>2. IInv /\ Attempts /\ [Next]_vars => Attempts'
  BY AttemptsStep DEF IInv
<1>3. IInv /\ Attempts /\ [Next]_vars => [Ledger!Next]_<<live, archived, newest>>
  BY LedgerStep
<1> QED
  BY <1>1, <1>2, <1>3, Inductive, PTL DEF Spec, KeepsNewest, Ledger!Spec, Ledger!ledgerVars
=================================================================================
