-------------------------- MODULE ImageStoreProofs --------------------------
(***************************************************************************)
(* Theorems about ImageStore, for any number of handlers and names.        *)
(***************************************************************************)
EXTENDS ImageStore, TLAPS

\* Names come from uploads.
NamesKnown ==
    /\ shown \subseteq named
    /\ unlinking \subseteq named
    /\ image \in shown \cup {None}
    /\ \A s \in Slots :
          /\ old[s] \in shown \cup {None}
          /\ Uploading(s) => img[s] \in named
          /\ Pushing(s) => img[s] \in shown \cup {None}

Typed == TypeOK /\ NamesKnown

\* The image of the row stays on disk unless a push takes it away; the file
\* of an upload under way is nobody else's, and nothing unlinks it.
Held ==
    careful =>
        /\ image # None /\ (\A s \in Slots : pc[s] = "write" => img[s] = image)
              => image \in disk \ unlinking
        /\ \A s \in Slots : Uploading(s) =>
              /\ img[s] \in disk \ unlinking
              /\ img[s] # image
              /\ \A q \in Slots : q # s /\ Uploading(q) => img[s] # img[q]
              /\ \A q \in Slots : pc[q] = "save" => img[s] # old[q]
        /\ \A s \in Slots : Pushing(s) =>
              /\ img[s] \in {image, None}
              /\ \A q \in Slots \ {s} : ~Running(q)

\* Every file is the row's, an upload's, or about to go.
Kept ==
    tidy =>
        /\ \A s \in Slots : Running(s) => \A q \in Slots \ {s} : ~Running(q)
        /\ disk \subseteq
              {image} \cup unlinking \cup {img[s] : s \in {q \in Slots : Uploading(q)}}
        /\ \A s \in Slots :
              /\ pc[s] = "save" => old[s] = image
              /\ pc[s] = "look" => img[s] = image
              /\ pc[s] = "write" => disk \subseteq {img[s]} \cup unlinking

IInv == Typed /\ Held /\ Kept

LEMMA InitIInv == Init => IInv
<1>. SUFFICES ASSUME Init PROVE IInv
  OBVIOUS
<1>1. Typed
  BY DEF Init, Typed, TypeOK, NamesKnown, Name, Uploading, Pushing
<1>2. Held /\ Kept
  BY DEF Init, Held, Kept, Running, Uploading, Pushing
<1>. QED
  BY <1>1, <1>2 DEF IInv

-----------------------------------------------------------------------------

LEMMA NextTyped == Typed /\ [Next]_vars => Typed'
<1>. SUFFICES ASSUME Typed, [Next]_vars PROVE Typed'
  OBVIOUS
<1>. USE NoneAssumption DEF Typed, TypeOK, NamesKnown, Name, Uploading, Pushing,
         rowVars, fileVars, handlerVars
<1>1. CASE UNCHANGED vars
  BY <1>1 DEF vars
<1>2. CASE Tick
  BY <1>2, BoundAssumption DEF Tick
<1>3. CASE Remove
  BY <1>3 DEF Remove
<1>4. ASSUME NEW n \in unlinking, Unlink(n) PROVE Typed'
  BY <1>4 DEF Unlink
<1>5. ASSUME NEW n \in unlinking, UnlinkFails(n) PROVE Typed'
  BY <1>5 DEF UnlinkFails
<1>6. ASSUME NEW s \in Slots, Upload(s) PROVE Typed'
  BY <1>6 DEF Upload, Begin, Running, Alone
<1>7. ASSUME NEW s \in Slots, NEW n \in shown \cup {None}, NEW d \in BOOLEAN,
             Push(s, n, d) \/ Sync(s, n, d)
      PROVE  Typed'
  <2>1. CASE Push(s, n, d)
    BY <2>1 DEF Push, Begin, Running
  <2>2. CASE Sync(s, n, d)
    BY <2>2 DEF Sync, Begin, Running
  <2>. QED
    BY <1>7, <2>1, <2>2
<1>8. ASSUME NEW s \in Slots, ReadRow(s) PROVE Typed'
  BY <1>8 DEF ReadRow
<1>9. ASSUME NEW s \in Slots, Save(s) PROVE Typed'
  BY <1>9 DEF Save, End, Replaced
<1>10. ASSUME NEW s \in Slots, Find(s) PROVE Typed'
  BY <1>10 DEF Find, Superseded
<1>11. ASSUME NEW s \in Slots, Look(s) PROVE Typed'
  BY <1>11 DEF Look
<1>12. ASSUME NEW s \in Slots, Drop(s) PROVE Typed'
  BY <1>12 DEF Drop, End
<1>13. ASSUME NEW s \in Slots, Write(s) PROVE Typed'
  BY <1>13 DEF Write, End
<1>14. ASSUME NEW s \in Slots, Refuse(s) PROVE Typed'
  BY <1>14 DEF Refuse, End
<1>. HIDE DEF Typed, TypeOK, NamesKnown, Name, Uploading, Pushing, rowVars,
         fileVars, handlerVars
<1>. QED
  BY <1>1, <1>2, <1>3, <1>4, <1>5, <1>6, <1>7, <1>8, <1>9, <1>10, <1>11,
     <1>12, <1>13, <1>14 DEF Next, Handle

LEMMA NextHeld == IInv /\ [Next]_vars => Held'
<1>. SUFFICES ASSUME IInv, [Next]_vars, careful' PROVE Held'
  BY DEF Held
<1>. USE NoneAssumption DEF IInv, Typed, TypeOK, NamesKnown, Name, Held,
         Uploading, Pushing, Running, rowVars, fileVars, handlerVars
<1>1. CASE UNCHANGED vars
  BY <1>1 DEF vars
<1>2. CASE Tick
  BY <1>2 DEF Tick
<1>3. CASE Remove
  BY <1>3 DEF Remove
<1>4. ASSUME NEW n \in unlinking, Unlink(n) PROVE Held'
  BY <1>4 DEF Unlink
<1>5. ASSUME NEW n \in unlinking, UnlinkFails(n) PROVE Held'
  BY <1>5 DEF UnlinkFails
<1>6. ASSUME NEW s \in Slots, Upload(s) PROVE Held'
  <2>1. now \notin named /\ now \in Nat /\ \A q \in Slots : ~Pushing(q)
    BY <1>6 DEF Upload, Begin
  <2>2. /\ image' = image /\ unlinking' = unlinking /\ old' = old
        /\ disk' = disk \cup {now} /\ careful
        /\ pc' = [pc EXCEPT ![s] = "read"] /\ img' = [img EXCEPT ![s] = now]
        /\ pc[s] = "idle"
    BY <1>6 DEF Upload, Begin
  <2>3. \A q \in Slots : pc'[q] # "write" /\ ~Pushing(q)'
    BY <2>1, <2>2
  <2>4. image # None => image \in disk \ unlinking
    BY <2>1, <2>2
  <2>5. ASSUME NEW r \in Slots, Uploading(r)'
        PROVE  /\ img'[r] \in disk' \ unlinking'
               /\ img'[r] # image
               /\ \A q \in Slots : q # r /\ Uploading(q)' => img'[r] # img'[q]
               /\ \A q \in Slots : pc'[q] = "save" => img'[r] # old[q]
    <3>1. CASE r = s
      BY <2>1, <2>2, <3>1
    <3>2. CASE r # s
      BY <2>1, <2>2, <2>5, <3>2
    <3>. QED
      BY <3>1, <3>2
  <2>. QED
    BY <2>2, <2>3, <2>4, <2>5
<1>7. ASSUME NEW s \in Slots, NEW n \in shown \cup {None}, NEW d \in BOOLEAN,
             Push(s, n, d) \/ Sync(s, n, d)
      PROVE  Held'
  <2>1. CASE Push(s, n, d)
    BY <2>1 DEF Push, Begin, Alone
  <2>2. CASE Sync(s, n, d)
    BY <2>2 DEF Sync, Begin, Alone
  <2>. QED
    BY <1>7, <2>1, <2>2
<1>8. ASSUME NEW s \in Slots, ReadRow(s) PROVE Held'
  BY <1>8 DEF ReadRow
<1>9. ASSUME NEW s \in Slots, Save(s) PROVE Held'
  BY <1>9 DEF Save, End, Replaced
<1>10. ASSUME NEW s \in Slots, Find(s) PROVE Held'
  BY <1>10 DEF Find, Superseded
<1>11. ASSUME NEW s \in Slots, Look(s) PROVE Held'
  BY <1>11 DEF Look
<1>12. ASSUME NEW s \in Slots, Drop(s) PROVE Held'
  BY <1>12 DEF Drop, End
<1>13. ASSUME NEW s \in Slots, Write(s) PROVE Held'
  BY <1>13 DEF Write, End
<1>14. ASSUME NEW s \in Slots, Refuse(s) PROVE Held'
  <2>1. /\ image' = image /\ unlinking' = unlinking /\ disk' = disk
        /\ pc' = [pc EXCEPT ![s] = "idle"] /\ img' = [img EXCEPT ![s] = None]
        /\ old' = [old EXCEPT ![s] = None]
        /\ careful /\ pc[s] # "write"
    BY <1>14 DEF Refuse, End
  <2>2. ASSUME image # None, \A q \in Slots : pc'[q] = "write" => img'[q] = image
        PROVE  image \in disk \ unlinking
    <3>1. \A q \in Slots : pc[q] = "write" => img[q] = image
      BY <2>1, <2>2
    <3>. QED
      BY <2>1, <2>2, <3>1
  <2>3. \A q \in Slots : Uploading(q)' =>
            q # s /\ Uploading(q) /\ img'[q] = img[q] /\ old'[q] = old[q]
    BY <2>1
  <2>4. \A q \in Slots : pc'[q] = "save" => pc[q] = "save" /\ old'[q] = old[q]
    BY <2>1
  <2>5. \A q \in Slots : Pushing(q)' => Pushing(q) /\ img'[q] = img[q]
    BY <2>1
  <2>6. \A q \in Slots : ~Running(q) => ~Running(q)'
    BY <2>1
  <2>. QED
    BY <2>1, <2>2, <2>3, <2>4, <2>5, <2>6
<1>. HIDE DEF IInv, Typed, TypeOK, NamesKnown, Name, Held, Uploading,
         Pushing, Running, rowVars, fileVars, handlerVars
<1>. QED
  BY <1>1, <1>2, <1>3, <1>4, <1>5, <1>6, <1>7, <1>8, <1>9, <1>10, <1>11,
     <1>12, <1>13, <1>14 DEF Next, Handle

LEMMA NextKept == IInv /\ [Next]_vars => Kept'
<1>. SUFFICES ASSUME IInv, [Next]_vars, tidy' PROVE Kept'
  BY DEF Kept
<1>. USE NoneAssumption DEF IInv, Typed, TypeOK, NamesKnown, Name, Kept,
         Uploading, Running, rowVars, fileVars, handlerVars
<1>1. CASE UNCHANGED vars
  BY <1>1 DEF vars
<1>2. CASE Tick
  BY <1>2 DEF Tick
<1>3. CASE Remove
  BY <1>3 DEF Remove
<1>4. ASSUME NEW n \in unlinking, Unlink(n) PROVE Kept'
  BY <1>4 DEF Unlink
<1>5. ASSUME NEW n \in unlinking, UnlinkFails(n) PROVE Kept'
  <2>1. /\ tidy /\ n \notin disk /\ unlinking' = unlinking \ {n}
        /\ disk' = disk /\ image' = image
        /\ pc' = pc /\ img' = img /\ old' = old
    BY <1>5 DEF UnlinkFails
  <2>. QED
    BY <2>1
<1>6. ASSUME NEW s \in Slots, Upload(s) PROVE Kept'
  <2>1. /\ tidy /\ \A q \in Slots : pc[q] = "idle"
        /\ image' = image /\ unlinking' = unlinking
        /\ disk' = disk \cup {now}
        /\ pc' = [pc EXCEPT ![s] = "read"] /\ img' = [img EXCEPT ![s] = now]
    BY <1>6 DEF Upload, Begin, Alone
  <2>2. disk \subseteq {image} \cup unlinking
    BY <2>1
  <2>3. pc'[s] = "read" /\ img'[s] = now
        /\ \A q \in Slots \ {s} : pc'[q] = "idle"
    BY <2>1
  <2>4. disk' \subseteq {image'} \cup unlinking'
                   \cup {img'[q] : q \in {r \in Slots : Uploading(r)'}}
    BY <2>1, <2>2, <2>3
  <2>. QED
    BY <2>3, <2>4
<1>7. ASSUME NEW s \in Slots, NEW n \in shown \cup {None}, NEW d \in BOOLEAN,
             Push(s, n, d) \/ Sync(s, n, d)
      PROVE  Kept'
  <2>1. /\ tidy /\ \A q \in Slots : pc[q] = "idle"
        /\ image' = image /\ unlinking' = unlinking /\ disk' = disk
        /\ old' = old
    BY <1>7 DEF Push, Sync, Begin, Alone
  <2>2. disk \subseteq {image} \cup unlinking
    BY <2>1
  <2>3. /\ pc'[s] \in {"find", "look"} /\ (pc'[s] = "look" => img'[s] = image)
        /\ \A q \in Slots \ {s} : pc'[q] = "idle"
    <3>1. CASE Push(s, n, d)
      BY <2>1, <3>1 DEF Push, Begin
    <3>2. CASE Sync(s, n, d)
      BY <2>1, <3>2 DEF Sync, Begin
    <3>. QED
      BY <1>7, <3>1, <3>2
  <2>. QED
    BY <2>1, <2>2, <2>3
<1>8. ASSUME NEW s \in Slots, ReadRow(s) PROVE Kept'
  BY <1>8 DEF ReadRow
<1>9. ASSUME NEW s \in Slots, Save(s) PROVE Kept'
  BY <1>9 DEF Save, End, Replaced
<1>10. ASSUME NEW s \in Slots, Find(s) PROVE Kept'
  BY <1>10 DEF Find, Superseded
<1>11. ASSUME NEW s \in Slots, Look(s) PROVE Kept'
  BY <1>11 DEF Look
<1>12. ASSUME NEW s \in Slots, Drop(s) PROVE Kept'
  BY <1>12 DEF Drop, End
<1>13. ASSUME NEW s \in Slots, Write(s) PROVE Kept'
  BY <1>13 DEF Write, End
<1>14. ASSUME NEW s \in Slots, Refuse(s) PROVE Kept'
  BY <1>14 DEF Refuse, End
<1>. HIDE DEF IInv, Typed, TypeOK, NamesKnown, Name, Kept, Uploading,
         Running, rowVars, fileVars, handlerVars
<1>. QED
  BY <1>1, <1>2, <1>3, <1>4, <1>5, <1>6, <1>7, <1>8, <1>9, <1>10, <1>11,
     <1>12, <1>13, <1>14 DEF Next, Handle

LEMMA AlwaysIInv == Spec => []IInv
<1>1. IInv /\ [Next]_vars => IInv'
  BY NextTyped, NextHeld, NextKept DEF IInv
<1>. QED
  BY InitIInv, <1>1, PTL DEF Spec

-----------------------------------------------------------------------------

\* The variables keep their types: no name of a missing image is unlinked,
\* and what is saved is a file.
THEOREM ImagesTyped == Spec => []TypeOK
<1>1. IInv => TypeOK
  BY DEF IInv, Typed
<1>. QED
  BY AlwaysIInv, <1>1, PTL

\* updateImage, updateShelfLocationImage and the pushes never leave the row
\* with an image that is not on disk, under the provisos of NoDanglingImage.
THEOREM RowsPointToFiles == Spec => []NoDanglingImage
<1>1. IInv => NoDanglingImage
  BY DEF IInv, Held, NoDanglingImage
<1>. QED
  BY AlwaysIInv, <1>1, PTL

\* Every file that no row names has been unlinked, under the provisos of
\* NoOrphanedFile.
THEOREM OrphansUnlinked == Spec => []NoOrphanedFile
<1>1. IInv => NoOrphanedFile
  BY DEF IInv, Kept, NoOrphanedFile, Alone, Running, Uploading
<1>. QED
  BY AlwaysIInv, <1>1, PTL
=============================================================================
