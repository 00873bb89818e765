--------------------------- MODULE ServicesProofs ---------------------------
(***************************************************************************)
(* Proofs about the parts of the library that the threads of one program   *)
(* do not share: arrays, locks on files, commands, the log, messages over  *)
(* TCP and UDP, transfers, bitmaps, escapes and random numbers; for any    *)
(* elements, files, processes, commands, messages, lengths and boxes.      *)
(***************************************************************************)
EXTENDS XArray, XFileLock, XExecCmd, XLog, IpcTcp, IpcUdp, XTransfer, XBitmap, XCodes, XRandom,
        SequenceLemmas, FiniteSetTheorems

-----------------------------------------------------------------------------
(* xarray.c *)

\* What Resized makes of an array.
LEMMA ResizedIs ==
  ASSUME NEW n \in Int, NEW data
  PROVE  /\ DOMAIN Resized(data, n) = 0 .. n - 1
         /\ \A i \in 0 .. n - 1 : Resized(data, n)[i] = IF i \in DOMAIN data THEN data[i] ELSE Hole
BY DEF Resized

\* What is at an index; what is behind the end of the array is lost.
Held(i) == IF i < length THEN place[i] ELSE Hole

LEMMA ListIs ==
  ASSUME ElementsFit
  PROVE  /\ ListOf = [n \in 1 .. count |-> Held(n - 1)]
         /\ ListOf \in Seq(Elements \cup {Hole}) /\ Len(ListOf) = count
         /\ DOMAIN ListOf = 1 .. count
         /\ \A n \in 1 .. count : ListOf[n] = Held(n - 1)
<1>1. \A n \in 1 .. count : (IF n <= length THEN place[n - 1] ELSE Hole) = Held(n - 1)
  BY DEF ElementsFit, Held
<1>2. \A n \in 1 .. count : Held(n - 1) \in Elements \cup {Hole}
  BY DEF ElementsFit, Held
<1> HIDE DEF Held
<1>3. ListOf = [n \in 1 .. count |-> Held(n - 1)]
  BY <1>1 DEF ListOf
<1>4. count \in Nat
  BY DEF ElementsFit
<1> QED
  BY <1>2, <1>3, <1>4

\* The same of the array that a step leaves.
LEMMA ListIsThen ==
  ASSUME ElementsFit'
  PROVE  /\ ListOf' = [n \in 1 .. count' |-> Held(n - 1)']
         /\ ListOf' \in Seq(Elements \cup {Hole}) /\ Len(ListOf') = count'
         /\ \A n \in 1 .. count' : ListOf'[n] = Held(n - 1)'
<1>a. PICK l \in Nat : l = length'
  BY DEF ElementsFit
<1>b. PICK c \in Nat : c = count'
  BY DEF ElementsFit
<1>c. PICK p \in [0 .. l - 1 -> Elements \cup {Hole}] : p = place'
  BY <1>a DEF ElementsFit
<1>d. \A i : Held(i)' = IF i < l THEN p[i] ELSE Hole
  BY <1>a, <1>c DEF Held
<1>1. \A n \in 1 .. count' : (IF n <= length' THEN place'[n - 1] ELSE Hole) = Held(n - 1)'
  <2>1. \A n \in Int : n - 1 < l <=> n <= l
    BY <1>a
  <2> SUFFICES ASSUME NEW n \in 1 .. c
               PROVE  (IF n <= length' THEN place'[n - 1] ELSE Hole) = IF n - 1 < length' THEN place'[n - 1] ELSE Hole
    BY <1>b DEF Held
  <2> QED
    BY <1>a, <1>b, <2>1
<1>2. \A n \in 1 .. count' : Held(n - 1)' \in Elements \cup {Hole}
  BY <1>b, <1>d
<1>3. ListOf' = [n \in 1 .. count' |-> Held(n - 1)']
  BY <1>1 DEF ListOf
<1>4. count' \in Nat
  BY DEF ElementsFit
<1> QED
  BY <1>2, <1>3, <1>4

\* An element is written into an array that has room for it.
LEMMA WriteFits ==
  ASSUME NEW n \in Nat, NEW data \in [0 .. n - 1 -> Elements \cup {Hole}],
         NEW index \in 0 .. n - 1, NEW e \in Elements \cup {Hole},
         count \in Nat, \A i \in 0 .. n - 1 : i >= count => data[i] = Hole,
         Write(data, index, e), length' = n, overrun' \in BOOLEAN
  PROVE  /\ ElementsFit'
         /\ count' = IF index + 1 > count THEN index + 1 ELSE count
         /\ \A i \in 0 .. n - 1 : place'[i] = IF i = index THEN e ELSE data[i]
<1>1. /\ place' = [data EXCEPT ![index] = e]
      /\ count' = IF index + 1 > count THEN index + 1 ELSE count
  BY DEF Write
<1>2. place' \in [0 .. n - 1 -> Elements \cup {Hole}]
  BY <1>1
<1>3. \A i \in 0 .. n - 1 : place'[i] = IF i = index THEN e ELSE data[i]
  BY <1>1
<1>4. count' \in Nat /\ count' >= count /\ count' > index /\ n # 0
  BY <1>1
<1>5. \A i \in 0 .. n - 1 : i >= count' => place'[i] = Hole
  BY <1>3, <1>4
<1> QED
  BY <1>1, <1>2, <1>3, <1>4, <1>5 DEF ElementsFit

\* Setting a place, and what the array then holds.
LEMMA SetStep ==
  ASSUME ElementsFit, NEW index \in 0 .. MaxPlace, NEW e \in Elements \cup {Hole},
         NEW force \in BOOLEAN, SetIndex(index, e, force)
  PROVE  /\ ElementsFit'
         /\ \/ UNCHANGED <<length, count, place, lastCall>>
            \/ /\ UNCHANGED <<length, count, place>>
               /\ lastCall' = <<Sets(force), index + 1, e, -1>>
               /\ force => Held(index) = Hole
            \/ /\ lastCall' = <<Sets(force), index + 1, e, 0>>
               /\ Held(index) # Hole => force
               /\ count' = IF index + 1 > count THEN index + 1 ELSE count
               /\ \A i \in 0 .. count' - 1 :
                    Held(i)' = IF i = index THEN e ELSE IF i < count THEN Held(i) ELSE Hole
<1>0. /\ length \in Nat /\ count \in Nat /\ index \in Nat /\ overrun \in BOOLEAN
      /\ place \in [0 .. length - 1 -> Elements \cup {Hole}]
      /\ \A i \in 0 .. length - 1 : i >= count => place[i] = Hole
  BY ArrayAssumption DEF ElementsFit
<1>1. CASE SetWithin(index, e, force)
  <2>1. /\ index \in 0 .. length - 1 /\ Write(place, index, e) /\ length' = length
        /\ place[index] # Hole => force
        /\ lastCall' = <<Sets(force), index + 1, e, 0>> /\ overrun' = overrun
    BY <1>0, <1>1 DEF SetWithin, Fits
  <2>2. /\ ElementsFit'
        /\ count' = IF index + 1 > count THEN index + 1 ELSE count
        /\ \A i \in 0 .. length - 1 : place'[i] = IF i = index THEN e ELSE place[i]
    BY <1>0, <2>1, WriteFits
  <2>3. \A i \in 0 .. count' - 1 :
          Held(i)' = IF i = index THEN e ELSE IF i < count THEN Held(i) ELSE Hole
    BY <1>0, <2>1, <2>2 DEF Held
  <2>4. Held(index) # Hole => force
    BY <2>1 DEF Held
  <2> QED
    BY <2>1, <2>2, <2>3, <2>4
<1>2. CASE SetGrowing(index, e, force) /\ index < NewSize(index)
  <2> DEFINE newsize == NewSize(index)
             data == Resized(place, newsize)
  <2>1. /\ ~ Fits(index) /\ length' = newsize /\ Write(data, index, e)
        /\ lastCall' = <<Sets(force), index + 1, e, 0>> /\ overrun' = overrun
    BY <1>2 DEF SetGrowing
  <2>2. newsize \in Nat /\ index \in 0 .. newsize - 1 /\ length <= newsize /\ index >= length
    BY <1>0, <1>2, <2>1 DEF Fits, NewSize
  <2> HIDE DEF newsize
  <2>3. /\ data \in [0 .. newsize - 1 -> Elements \cup {Hole}]
        /\ \A i \in 0 .. newsize - 1 : data[i] = IF i < length THEN place[i] ELSE Hole
    BY <1>0, <2>2 DEF Resized
  <2> HIDE DEF data
  <2>4. \A i \in 0 .. newsize - 1 : i >= count => data[i] = Hole
    BY <1>0, <2>2, <2>3
  <2>5. /\ ElementsFit'
        /\ count' = IF index + 1 > count THEN index + 1 ELSE count
        /\ \A i \in 0 .. newsize - 1 : place'[i] = IF i = index THEN e ELSE data[i]
    <3>1. count \in Nat /\ overrun' \in BOOLEAN
      BY <1>0, <2>1
    <3>2. PICK d : d = data
      OBVIOUS
    <3>3. /\ d \in [0 .. newsize - 1 -> Elements \cup {Hole}]
          /\ \A i \in 0 .. newsize - 1 : i >= count => d[i] = Hole
          /\ Write(d, index, e) /\ length' = newsize
      BY <2>1, <2>3, <2>4, <3>2
    <3>4. newsize \in Nat /\ index \in 0 .. newsize - 1
      BY <2>2
    <3> QED
      BY <3>1, <3>2, <3>3, <3>4, WriteFits
  <2>6. ASSUME NEW i \in 0 .. count' - 1
        PROVE  Held(i)' = IF i = index THEN e ELSE IF i < count THEN Held(i) ELSE Hole
    <3>1. CASE i < newsize
      <4>1. i \in 0 .. newsize - 1 /\ Held(i)' = IF i = index THEN e ELSE data[i]
        BY <2>1, <2>2, <2>5, <3>1 DEF Held
      <4> QED
        BY <1>0, <2>2, <2>3, <2>4, <4>1 DEF Held
    <3>2. CASE ~ (i < newsize)
      <4>1. Held(i)' = Hole /\ i # index /\ ~ (i < length)
        BY <1>0, <2>1, <2>2, <3>2 DEF Held
      <4> QED
        BY <4>1 DEF Held
    <3> QED
      BY <3>1, <3>2
  <2>7. Held(index) = Hole
    BY <1>0, <2>2 DEF Held
  <2> QED
    BY <2>1, <2>5, <2>6, <2>7
<1>3. CASE SetGrowing(index, e, force) /\ ~ (index < NewSize(index))
  BY <1>3 DEF SetGrowing, Overruns, ElementsFit
<1>4. CASE SetFails(index, e, force)
  <2>1. force => Held(index) = Hole
    BY <1>4 DEF SetFails, Fits, Held
  <2> QED
    BY <1>4, <2>1 DEF SetFails, ElementsFit
<1> QED
  BY <1>1, <1>2, <1>3, <1>4 DEF SetIndex

\* Closing up leaves what was not removed, and room for it.
LEMMA RemoveStep ==
  ASSUME ElementsFit, NEW index \in Nat, CloseUp(index)
  PROVE  /\ ElementsFit'
         /\ \/ overrun' /\ UNCHANGED <<length, count, place, lastCall>> /\ ~ (index < count /\ count <= length)
            \/ /\ index < count /\ count <= length /\ count' = count - 1 /\ overrun' = overrun
               /\ count' <= length'
               /\ \A i \in 0 .. count' - 1 : Held(i)' = IF i < index THEN Held(i) ELSE Held(i + 1)
<1>1. CASE ~ (index < count /\ count <= length)
  BY <1>1 DEF CloseUp, Overruns, ElementsFit
<1>2. CASE index < count /\ count <= length
  <2>1. count' = count - 1 /\ UNCHANGED <<appendEnable, overrun>>
    BY <1>2 DEF CloseUp
  <2>2. PICK n \in LengthsLeft : length' = n /\ place' = Resized(ClosedUp(index), n)
    BY <1>2 DEF CloseUp
  <2>3. n \in Nat /\ n <= length /\ count - 1 <= n /\ n # 0
    BY <1>2 DEF LengthsLeft, ElementsFit
  <2>4. DOMAIN ClosedUp(index) = 0 .. length - 1
    BY DEF ClosedUp, ElementsFit
  <2>5. \A i \in 0 .. length - 1 :
          ClosedUp(index)[i] = IF i >= count - 1 THEN Hole
                               ELSE IF i < index THEN place[i] ELSE place[i + 1]
    BY <1>2 DEF ClosedUp, ElementsFit
  <2>6. \A i \in 0 .. n - 1 : Resized(ClosedUp(index), n)[i] = ClosedUp(index)[i]
    <3>1. \A i \in 0 .. n - 1 : i \in DOMAIN ClosedUp(index)
      BY <2>3, <2>4 DEF ElementsFit
    <3> QED
      BY <3>1 DEF Resized
  <2>7. \A i \in 0 .. n - 1 :
          place'[i] = IF i >= count - 1 THEN Hole
                      ELSE IF i < index THEN place[i] ELSE place[i + 1]
    BY <2>2, <2>3, <2>5, <2>6 DEF ElementsFit
  <2>8. place' \in [0 .. n - 1 -> Elements \cup {Hole}]
    <3>1. \A i \in 0 .. n - 1 : place'[i] \in Elements \cup {Hole}
      BY <1>2, <2>3, <2>7 DEF ElementsFit
    <3>2. place' = [i \in 0 .. n - 1 |-> place'[i]]
      BY <2>2, <2>3 DEF Resized
    <3> QED
      BY <3>1, <3>2
  <2>9. ElementsFit'
    BY <1>2, <2>1, <2>2, <2>3, <2>7, <2>8 DEF ElementsFit
  <2>10. \A i \in 0 .. count' - 1 : Held(i)' = IF i < index THEN Held(i) ELSE Held(i + 1)
    BY <1>2, <2>1, <2>2, <2>3, <2>7 DEF ElementsFit, Held
  <2> QED
    BY <1>2, <2>1, <2>2, <2>3, <2>9, <2>10
<1> QED
  BY <1>1, <1>2

\* xarray_append.
LEMMA AppendStep ==
  ASSUME ElementsFit, NEW extents \in Int, AppendCall(extents)
  PROVE  /\ ElementsFit' /\ overrun' = overrun
         /\ \/ /\ lastCall' = <<"append", length'>> /\ length' = length + extents /\ length' \in 1 .. MaxLength
               /\ count' = count
               /\ \A i \in 0 .. count - 1 : Held(i)' = IF i < length' THEN Held(i) ELSE Hole
            \/ lastCall' = <<"append", -1>> /\ UNCHANGED <<length, count, place>>
            \/ lastCall' = <<"append", 0>> /\ count' = 0 /\ length' = 0
<1> DEFINE n == length + extents
<1>0. /\ length \in Nat /\ count \in Nat /\ n \in Int /\ n <= MaxLength /\ overrun' = overrun /\ overrun \in BOOLEAN
      /\ place \in [0 .. length - 1 -> Elements \cup {Hole}]
      /\ \A i \in 0 .. length - 1 : i >= count => place[i] = Hole
      /\ MaxLength \in Nat
  BY ArrayAssumption DEF AppendCall, ElementsFit
<1>1. CASE n > 0 /\ lastCall' = <<"append", n>> /\ length' = n /\ place' = Resized(place, n) /\ count' = count
  <2> HIDE DEF n
  <2>1. /\ place' \in [0 .. n - 1 -> Elements \cup {Hole}]
        /\ \A i \in 0 .. n - 1 : place'[i] = IF i < length THEN place[i] ELSE Hole
    BY <1>0, <1>1 DEF Resized
  <2>2. ElementsFit'
    BY <1>0, <1>1, <2>1 DEF ElementsFit
  <2>3. \A i \in 0 .. count - 1 : Held(i)' = IF i < length' THEN Held(i) ELSE Hole
    BY <1>0, <1>1, <2>1 DEF Held
  <2> QED
    BY <1>0, <1>1, <2>2, <2>3 DEF n
<1>2. CASE lastCall' = <<"append", -1>> /\ UNCHANGED <<length, count, place>>
  BY <1>0, <1>2 DEF ElementsFit
<1>3. CASE n <= 0 /\ lastCall' = <<"append", 0>> /\ length' = 0 /\ place' = Resized(place, 0) /\ count' = 0
  <2>1. place' \in [0 .. 0 - 1 -> Elements \cup {Hole}]
    BY <1>3 DEF Resized
  <2> QED
    BY <1>0, <1>3, <2>1 DEF ElementsFit
<1> QED
  BY <1>1, <1>2, <1>3 DEF AppendCall

\* A list from which an element has gone.
LEMMA ListCloses ==
  ASSUME ElementsFit, ElementsFit', NEW index \in Nat, index < count, count' = count - 1,
         \A i \in 0 .. count' - 1 : Held(i)' = IF i < index THEN Held(i) ELSE Held(i + 1)
  PROVE  ListOf' = ArrayPromise!RemoveAt(ListOf, index + 1)
<1> DEFINE E == Elements \cup {Hole}
<1>1. PICK list : list = ListOf
  OBVIOUS
<1>2. PICK left : left = ListOf'
  OBVIOUS
<1>3. /\ list \in Seq(E) /\ Len(list) = count /\ \A n \in 1 .. count : list[n] = Held(n - 1)
      /\ left \in Seq(E) /\ Len(left) = count - 1 /\ \A n \in 1 .. count - 1 : left[n] = Held(n - 1)'
      /\ count \in Nat
  BY <1>1, <1>2, ListIs, ListIsThen DEF ElementsFit
<1>4. index + 1 \in 1 .. Len(list)
  BY <1>3
<1>5. PICK s : s = RemoveAt(list, index + 1)
  OBVIOUS
<1>6. /\ s \in Seq(E) /\ Len(s) = count - 1
      /\ \A i \in 1 .. count - 1 : s[i] = IF i < index + 1 THEN list[i] ELSE list[i + 1]
  <2> HIDE DEF E
  <2> QED
    BY <1>3, <1>4, <1>5, RemovedAt
<1>7. ASSUME NEW i \in 1 .. count - 1 PROVE left[i] = s[i]
  <2>1. /\ i - 1 \in 0 .. count' - 1 /\ (i - 1 < index <=> i < index + 1) /\ (i - 1) + 1 = i
        /\ i \in 1 .. count /\ i + 1 \in 1 .. count /\ (i + 1) - 1 = i
    BY <1>3
  <2>2. left[i] = IF i < index + 1 THEN Held(i - 1) ELSE Held(i)
    BY <1>3, <2>1
  <2>3. list[i] = Held(i - 1) /\ list[i + 1] = Held(i)
    BY <1>3, <2>1
  <2> QED
    BY <1>6, <2>2, <2>3
<1>8. left = s
  BY <1>3, <1>6, <1>7
<1> QED
  BY <1>1, <1>2, <1>5, <1>8 DEF ArrayPromise!RemoveAt, RemoveAt

\* A call that does nothing to the array, or went outside of it.
LEMMA ListStays ==
  ASSUME UNCHANGED <<length, count, place>> PROVE ListOf' = ListOf
BY DEF ListOf

\* The calls of an array are steps of its list.
LEMMA ListStep ==
  ASSUME ElementsFit, [ArrayNext]_arrayVars
  PROVE  ElementsFit' /\ [ArrayPromise!Next]_<<ListOf, lastCall>>
<1> DEFINE E == Elements \cup {Hole}
           Stutters == UNCHANGED <<ListOf, lastCall>>
<1>0. /\ ListOf \in Seq(E) /\ Len(ListOf) = count /\ DOMAIN ListOf = 1 .. count
      /\ \A n \in 1 .. count : ListOf[n] = Held(n - 1)
      /\ count \in Nat /\ length \in Nat
  BY ListIs DEF ElementsFit
<1>1. ASSUME NEW index \in 0 .. MaxPlace, NEW e \in E, NEW force \in BOOLEAN,
             SetIndex(index, e, force)
      PROVE  ElementsFit' /\ (Stutters \/ ArrayPromise!Set(index + 1, e) \/ ArrayPromise!SetFails(index + 1, e))
  <2>1. index \in Nat
    BY ArrayAssumption
  <2>2. ArrayPromise!Taken(index + 1) => index < count /\ Held(index) # Hole
    <3>1. ASSUME index + 1 \in 1 .. count PROVE index < count /\ ListOf[index + 1] = Held(index)
      BY <1>0, <2>1, <3>1
    <3> QED
      BY <1>0, <3>1 DEF ArrayPromise!Taken
  <2>3. CASE UNCHANGED <<length, count, place, lastCall>>
    BY <1>1, <2>3, SetStep, ListStays
  <2>4. CASE /\ UNCHANGED <<length, count, place>>
             /\ lastCall' = <<Sets(force), index + 1, e, -1>>
             /\ force => Held(index) = Hole
    <3>1. ArrayPromise!SetFails(index + 1, e)
      BY <2>2, <2>4, ListStays DEF ArrayPromise!SetFails, Sets
    <3> QED
      BY <1>1, <3>1, SetStep
  <2>5. CASE /\ lastCall' = <<Sets(force), index + 1, e, 0>>
             /\ Held(index) # Hole => force
             /\ count' = IF index + 1 > count THEN index + 1 ELSE count
             /\ \A i \in 0 .. count' - 1 :
                  Held(i)' = IF i = index THEN e ELSE IF i < count THEN Held(i) ELSE Hole
    <3>1. ElementsFit' /\ ListOf' = [n \in 1 .. count' |-> Held(n - 1)']
      BY <1>1, SetStep, ListIsThen
    <3>2. ASSUME NEW m \in 1 .. count'
          PROVE  Held(m - 1)' = IF m = index + 1 THEN e
                                ELSE IF m \in DOMAIN ListOf THEN ListOf[m] ELSE Hole
      <4>1. /\ m - 1 \in 0 .. count' - 1 /\ (m - 1 = index <=> m = index + 1)
            /\ (m \in DOMAIN ListOf <=> m - 1 < count)
        BY <1>0, <2>1, <2>5
      <4>2. m \in DOMAIN ListOf => ListOf[m] = Held(m - 1)
        BY <1>0
      <4> QED
        BY <2>5, <4>1, <4>2
    <3>3. count' = IF index + 1 > Len(ListOf) THEN index + 1 ELSE Len(ListOf)
      BY <1>0, <2>5
    <3>4. ListOf' = [m \in 1 .. (IF index + 1 > Len(ListOf) THEN index + 1 ELSE Len(ListOf)) |->
                       IF m = index + 1 THEN e ELSE IF m \in DOMAIN ListOf THEN ListOf[m] ELSE Hole]
      BY <3>1, <3>2, <3>3
    <3>5. \/ lastCall' = <<"fset", index + 1, e, 0>>
          \/ lastCall' = <<"set", index + 1, e, 0>> /\ ~ ArrayPromise!Taken(index + 1)
      BY <2>2, <2>5 DEF Sets
    <3>6. ArrayPromise!Set(index + 1, e)
      BY <3>4, <3>5 DEF ArrayPromise!Set
    <3> QED
      BY <3>1, <3>6
  <2> QED
    BY <1>1, <2>3, <2>4, <2>5, SetStep
<1>2. ASSUME NEW index \in Nat, CloseUp(index)
      PROVE  /\ ElementsFit'
             /\ \/ overrun' /\ Stutters
                \/ /\ ~ overrun' \/ overrun
                   /\ index + 1 \in 1 .. count /\ index < length
                   /\ ListOf' = ArrayPromise!RemoveAt(ListOf, index + 1)
  <2>1. CASE overrun' /\ UNCHANGED <<length, count, place, lastCall>>
    BY <1>2, <2>1, RemoveStep, ListStays
  <2>2. CASE ~ (overrun' /\ UNCHANGED <<length, count, place, lastCall>>)
    <3>1. /\ ElementsFit' /\ index < count /\ count <= length /\ count' = count - 1 /\ overrun' = overrun
          /\ \A i \in 0 .. count' - 1 : Held(i)' = IF i < index THEN Held(i) ELSE Held(i + 1)
      BY <1>2, <2>2, RemoveStep
    <3>2. ListOf' = ArrayPromise!RemoveAt(ListOf, index + 1)
      BY <3>1, ListCloses
    <3>3. index + 1 \in 1 .. count /\ index < length
      BY <1>0, <3>1
    <3>4. ~ overrun' \/ overrun
      BY <3>1
    <3> QED
      BY <3>1, <3>2, <3>3, <3>4
  <2> QED
    BY <2>1, <2>2
<1>3. ASSUME NEW index \in -1 .. MaxPlace, RemoveIndex(index)
      PROVE  ElementsFit' /\ (Stutters \/ ArrayPromise!RemoveIndex(index + 1) \/ ArrayPromise!NoneToRemove(index + 1))
  <2>0. index \in Int /\ ~ overrun
    BY <1>3, ArrayAssumption DEF RemoveIndex
  <2>1. CASE index \in 0 .. length - 1
    <3>1. CloseUp(index) /\ (overrun' \/ lastCall' = <<"remove", index + 1, place[index]>>) /\ index \in Nat
      BY <1>3, <2>0, <2>1 DEF RemoveIndex
    <3>2. CASE overrun' /\ Stutters
      BY <1>2, <3>1, <3>2
    <3>3. CASE ~ (overrun' /\ Stutters)
      <4>1. /\ ElementsFit' /\ ~ overrun' /\ index + 1 \in 1 .. count
            /\ ListOf' = ArrayPromise!RemoveAt(ListOf, index + 1)
        BY <1>2, <2>0, <3>1, <3>3
      <4>2. ListOf[index + 1] = place[index]
        <5>1. ListOf[index + 1] = Held((index + 1) - 1) /\ (index + 1) - 1 = index
          BY <1>0, <2>0, <4>1
        <5> QED
          BY <1>0, <2>1, <5>1 DEF Held
      <4>3. ArrayPromise!RemoveIndex(index + 1)
        BY <1>0, <3>1, <4>1, <4>2 DEF ArrayPromise!RemoveIndex
      <4> QED
        BY <4>1, <4>3
    <3> QED
      BY <3>2, <3>3
  <2>2. CASE index \notin 0 .. length - 1
    <3>1. lastCall' = <<"remove", index + 1, Hole>> /\ UNCHANGED <<length, count, place, appendEnable, overrun>>
      BY <1>3, <2>2 DEF RemoveIndex
    <3>2. ~ ArrayPromise!Taken(index + 1)
      <4>1. ASSUME index + 1 \in 1 .. count PROVE ListOf[index + 1] = Hole
        <5>1. ListOf[index + 1] = Held(index) /\ ~ (index < length)
          BY <1>0, <2>0, <2>2, <4>1
        <5> QED
          BY <5>1 DEF Held
      <4> QED
        BY <1>0, <4>1 DEF ArrayPromise!Taken
    <3>3. ArrayPromise!NoneToRemove(index + 1)
      BY <3>1, <3>2, ListStays DEF ArrayPromise!NoneToRemove
    <3>4. ElementsFit'
      BY <3>1 DEF ElementsFit
    <3> QED
      BY <3>3, <3>4
  <2> QED
    BY <2>1, <2>2
<1>4. ASSUME NEW e \in Elements, RemoveData(e)
      PROVE  ElementsFit' /\ (Stutters \/ ArrayPromise!RemoveData(e))
  <2> DEFINE equal == {i \in 0 .. count - 1 : i < length /\ place[i] # Hole /\ KeyOf[place[i]] = KeyOf[e]}
             theirs == {n \in DOMAIN ListOf : ListOf[n] # Hole /\ KeyOf[ListOf[n]] = KeyOf[e]}
  <2>0. theirs = ArrayPromise!Equal(e)
    BY DEF ArrayPromise!Equal
  <2>1. \A n \in Int : n \in theirs <=> n - 1 \in equal
    <3>1. ASSUME NEW n \in 1 .. count
          PROVE  /\ n - 1 \in 0 .. count - 1
                 /\ n - 1 < length => ListOf[n] = place[n - 1]
                 /\ ~ (n - 1 < length) => ListOf[n] = Hole
      BY <1>0 DEF Held
    <3>2. \A n \in Int : n \in DOMAIN ListOf <=> n - 1 \in 0 .. count - 1
      BY <1>0
    <3>3. DOMAIN ListOf = 1 .. count
      BY <1>0
    <3> QED
      BY <3>1, <3>2, <3>3
  <2>2. \A i \in Int : i \in equal <=> i + 1 \in theirs
    <3>1. \A i \in Int : i + 1 \in Int /\ (i + 1) - 1 = i
      OBVIOUS
    <3> HIDE DEF equal, theirs
    <3> QED
      BY <2>1, <3>1
  <2>3. equal \subseteq Int /\ theirs \subseteq Int
    BY <1>0
  <2>4. CASE equal # {}
    <3>1. PICK index \in equal :
            /\ \A i \in equal : index <= i
            /\ CloseUp(index) /\ ~ overrun
            /\ overrun' \/ lastCall' = <<"remove_data", e, 0>>
      BY <1>4, <2>4 DEF RemoveData
    <3>2. index \in Nat /\ index < length /\ index < count
      BY <1>0
    <3>3. CASE overrun' /\ Stutters
      BY <1>2, <3>1, <3>2, <3>3
    <3>4. CASE ~ (overrun' /\ Stutters)
      <4>1. /\ ElementsFit' /\ ListOf' = ArrayPromise!RemoveAt(ListOf, index + 1)
            /\ lastCall' = <<"remove_data", e, 0>>
        BY <1>2, <3>1, <3>2, <3>4
      <4>2. index + 1 \in theirs
        BY <2>2, <3>2
      <4>3. \A m \in theirs : index + 1 <= m
        <5> SUFFICES ASSUME NEW m \in theirs PROVE index + 1 <= m
          OBVIOUS
        <5>1. m \in Int /\ m - 1 \in equal
          BY <2>1, <2>3
        <5>2. index <= m - 1
          BY <3>1, <5>1
        <5> HIDE DEF theirs, equal
        <5> QED
          BY <3>2, <5>1, <5>2
      <4> HIDE DEF theirs, equal
      <4>4. ArrayPromise!RemoveData(e)
        BY <2>0, <4>1, <4>2, <4>3 DEF ArrayPromise!RemoveData
      <4> QED
        BY <4>1, <4>4
    <3> QED
      BY <3>3, <3>4
  <2>5. CASE equal = {}
    <3>1. \/ lastCall' = <<"remove_data", e, -1>> /\ UNCHANGED <<length, count, place, appendEnable, overrun>>
          \/ Overruns
      BY <1>4, <2>5 DEF RemoveData
    <3>2. ElementsFit' /\ ListOf' = ListOf
      <4>1. UNCHANGED <<length, count, place>> /\ (overrun' = overrun \/ overrun' = TRUE)
        BY <3>1 DEF Overruns
      <4> QED
        BY <4>1, ListStays DEF ElementsFit
    <3>3. theirs = {}
      <4> HIDE DEF theirs, equal
      <4> QED
        BY <2>1, <2>3, <2>5
    <3>4. CASE Overruns
      BY <3>2, <3>4 DEF Overruns
    <3>5. CASE lastCall' = <<"remove_data", e, -1>>
      <4> HIDE DEF theirs, equal
      <4>1. ArrayPromise!RemoveData(e)
        BY <2>0, <3>2, <3>3, <3>5 DEF ArrayPromise!RemoveData
      <4> QED
        BY <3>2, <4>1
    <3> QED
      BY <3>1, <3>4, <3>5
  <2> QED
    BY <2>4, <2>5
<1>5. ASSUME NEW extents \in Int, AppendCall(extents)
      PROVE  /\ ElementsFit'
             /\ ArrayPromise!ResizeFails \/ \E n \in 0 .. MaxLength : ArrayPromise!Resize(n)
  <2>1. ElementsFit' /\ ListOf' = [n \in 1 .. count' |-> Held(n - 1)']
    BY <1>5, AppendStep, ListIsThen
  <2>2. CASE /\ lastCall' = <<"append", length'>> /\ length' \in 1 .. MaxLength
             /\ count' = count
             /\ \A i \in 0 .. count - 1 : Held(i)' = IF i < length' THEN Held(i) ELSE Hole
    <3>1. ASSUME NEW m \in 1 .. count PROVE Held(m - 1)' = IF m <= length' THEN ListOf[m] ELSE Hole
      <4>1. m - 1 \in 0 .. count - 1 /\ (m - 1 < length' <=> m <= length')
        BY <1>0, <2>2
      <4> QED
        BY <1>0, <2>2, <4>1
    <3>2. ListOf' = [m \in 1 .. Len(ListOf) |-> IF m <= length' THEN ListOf[m] ELSE Hole]
      BY <1>0, <2>1, <2>2, <3>1
    <3>3. length' # 0 /\ length' \in 0 .. MaxLength
      BY <2>2
    <3>4. ArrayPromise!Resize(length')
      BY <2>2, <3>2, <3>3 DEF ArrayPromise!Resize
    <3>5. \E n \in 0 .. MaxLength : ArrayPromise!Resize(n)
      <4>1. PICK n \in 0 .. MaxLength : n = length'
        BY <3>3
      <4>2. ArrayPromise!Resize(n)
        BY <2>2, <3>2, <3>3, <4>1 DEF ArrayPromise!Resize
      <4> QED
        BY <4>2
    <3> QED
      BY <2>1, <3>5
  <2>3. CASE lastCall' = <<"append", -1>> /\ UNCHANGED <<length, count, place>>
    BY <2>1, <2>3, ListStays DEF ArrayPromise!ResizeFails
  <2>4. CASE lastCall' = <<"append", 0>> /\ count' = 0
    <3>1. ListOf' = <<>>
      BY <2>1, <2>4
    <3>2. ArrayPromise!Resize(0) /\ 0 \in 0 .. MaxLength
      BY <2>4, <3>1, ArrayAssumption DEF ArrayPromise!Resize
    <3>3. \E n \in 0 .. MaxLength : ArrayPromise!Resize(n)
      BY <3>2
    <3> QED
      BY <2>1, <3>3
  <2> QED
    BY <1>5, <2>2, <2>3, <2>4, AppendStep
<1>6. ASSUME Traverse PROVE ElementsFit' /\ Stutters
  BY <1>6, ListStays DEF Traverse, Overruns, ElementsFit
<1>7. CASE UNCHANGED arrayVars
  BY <1>7, ListStays DEF arrayVars, ElementsFit
<1>8. \A index \in 0 .. MaxPlace : index + 1 \in 0 .. MaxPlace + 1
  BY ArrayAssumption
<1>9. \A index \in -1 .. MaxPlace : index + 1 \in 0 .. MaxPlace + 1
  BY ArrayAssumption
<1>10. - MaxLength .. MaxLength \subseteq Int
  BY ArrayAssumption
<1>11. CASE ArrayNext
  <2>1. CASE \E index \in 0 .. MaxPlace, e \in E, force \in BOOLEAN : SetIndex(index, e, force)
    BY <1>1, <1>8, <2>1 DEF ArrayPromise!Next
  <2>2. CASE \E index \in -1 .. MaxPlace : RemoveIndex(index)
    BY <1>3, <1>9, <2>2 DEF ArrayPromise!Next
  <2>3. CASE \E e \in Elements : RemoveData(e)
    BY <1>4, <2>3 DEF ArrayPromise!Next
  <2>4. CASE \E extents \in - MaxLength .. MaxLength : AppendCall(extents)
    BY <1>5, <1>10, <2>4 DEF ArrayPromise!Next
  <2>5. CASE Traverse
    BY <1>6, <2>5
  <2> QED
    BY <1>11, <2>1, <2>2, <2>3, <2>4, <2>5 DEF ArrayNext
<1> QED
  BY <1>7, <1>11

\* Only three calls take the elements out of the block.
LEMMA ContainedStep ==
  ASSUME ElementsFit, ArrayNext, Contained
  PROVE  \/ Contained'
         \/ \E e \in Elements \cup {Hole}, force \in BOOLEAN : SetIndex(length * 2, e, force)
         \/ \E index \in count .. length - 1 : RemoveIndex(index)
         \/ \E extents \in - MaxLength .. MaxLength :
              length + extents \in 1 .. count - 1 /\ AppendCall(extents)
<1>0. length \in Nat /\ count \in Nat /\ count <= length /\ ~ overrun
  BY DEF ElementsFit, Contained
<1>1. ASSUME NEW index \in 0 .. MaxPlace, NEW e \in Elements \cup {Hole}, NEW force \in BOOLEAN,
             SetIndex(index, e, force)
      PROVE  Contained' \/ (index = length * 2 /\ SetIndex(length * 2, e, force))
  <2>0. index \in Nat
    BY ArrayAssumption
  <2>1. CASE SetWithin(index, e, force)
    BY <1>0, <2>0, <2>1 DEF SetWithin, Fits, Write, Contained
  <2>2. CASE SetGrowing(index, e, force) /\ index < NewSize(index)
    BY <1>0, <2>0, <2>2 DEF SetGrowing, Fits, Write, NewSize, Contained
  <2>3. CASE SetGrowing(index, e, force) /\ ~ (index < NewSize(index))
    <3>1. index = length * 2
      BY <1>0, <2>0, <2>3 DEF SetGrowing, Fits, NewSize
    <3> QED
      BY <1>1, <3>1
  <2>4. CASE SetFails(index, e, force)
    BY <2>4 DEF SetFails, Contained
  <2> QED
    BY <1>1, <2>1, <2>2, <2>3, <2>4 DEF SetIndex
<1>2. ASSUME NEW index \in Nat, CloseUp(index) PROVE Contained' \/ count <= index
  <2>1. CASE index < count
    <3>1. count' <= length' /\ overrun' = overrun
      BY <1>0, <1>2, <2>1, RemoveStep
    <3> QED
      BY <3>1 DEF Contained
  <2> QED
    BY <1>0, <1>2, <2>1
<1>3. ASSUME NEW index \in -1 .. MaxPlace, RemoveIndex(index)
      PROVE  Contained' \/ index \in count .. length - 1
  <2>1. CASE index \in 0 .. length - 1
    <3>1. CloseUp(index) /\ index \in Nat
      BY <1>3, <2>1 DEF RemoveIndex
    <3> QED
      BY <1>0, <1>2, <2>1, <3>1
  <2>2. CASE index \notin 0 .. length - 1
    BY <1>3, <2>2 DEF RemoveIndex, Contained
  <2> QED
    BY <2>1, <2>2
<1>4. ASSUME NEW e \in Elements, RemoveData(e) PROVE Contained'
  <2>1. CASE \E index \in 0 .. count - 1 : CloseUp(index)
    <3>1. PICK index \in 0 .. count - 1 : CloseUp(index)
      BY <2>1
    <3>2. index \in Nat /\ ~ (count <= index)
      BY <1>0
    <3> QED
      BY <1>2, <3>1, <3>2
  <2>2. CASE UNCHANGED <<length, count, place, appendEnable, overrun>>
    BY <2>2 DEF Contained
  <2> QED
    BY <1>0, <1>4, <2>1, <2>2 DEF RemoveData
<1>5. ASSUME NEW extents \in - MaxLength .. MaxLength, AppendCall(extents)
      PROVE  Contained' \/ length + extents \in 1 .. count - 1
  <2>1. extents \in Int
    BY ArrayAssumption
  <2>2. \/ length' = length + extents /\ length' > 0 /\ count' = count
        \/ UNCHANGED <<length, count>>
        \/ count' = 0 /\ length' = 0
    BY <1>0, <1>5, <2>1 DEF AppendCall
  <2>3. overrun' = overrun
    BY <1>5 DEF AppendCall
  <2> QED
    BY <1>0, <2>1, <2>2, <2>3 DEF Contained
<1>6. ~ Traverse
  BY <1>0 DEF Traverse
<1>7. CASE \E index \in 0 .. MaxPlace, e \in Elements \cup {Hole}, force \in BOOLEAN : SetIndex(index, e, force)
  BY <1>1, <1>7
<1>8. CASE \E index \in -1 .. MaxPlace : RemoveIndex(index)
  BY <1>3, <1>8
<1>9. CASE \E extents \in - MaxLength .. MaxLength : AppendCall(extents)
  BY <1>5, <1>9
<1> QED
  BY <1>4, <1>6, <1>7, <1>8, <1>9 DEF ArrayNext

\* Whatever sequence of calls grows, shrinks, sets and removes, an array is a
\* list with holes and each call does to it what its name and its result say,
\* until a call goes outside of the array's block; and that takes one of three
\* calls (xarray.c:122-425).
THEOREM ArrayIsList == ArraySpec => ListIsKept
<1>1. ArrayInit => ElementsFit /\ ArrayPromise!Init
  <2> SUFFICES ASSUME ArrayInit PROVE ElementsFit /\ ArrayPromise!Init
    OBVIOUS
  <2>1. ElementsFit
    <3>1. length \in Nat /\ length # 0 /\ count = 0 /\ overrun = FALSE
      BY DEF ArrayInit
    <3>2. place = [i \in 0 .. length - 1 |-> Hole]
      BY DEF ArrayInit
    <3> QED
      BY <3>1, <3>2 DEF ElementsFit
  <2>2. ListOf = <<>>
    BY DEF ArrayInit, ListOf
  <2> QED
    BY <2>1, <2>2 DEF ArrayInit, ArrayPromise!Init
<1>2. ElementsFit /\ [ArrayNext]_arrayVars => ElementsFit' /\ [ArrayPromise!Next]_<<ListOf, lastCall>>
  BY ListStep
<1>3. ElementsFit /\ [ArrayNext]_arrayVars =>
        [Contained =>
           \/ Contained'
           \/ \E e \in Elements \cup {Hole}, force \in BOOLEAN : SetIndex(length * 2, e, force)
           \/ \E index \in count .. length - 1 : RemoveIndex(index)
           \/ \E extents \in - MaxLength .. MaxLength :
                length + extents \in 1 .. count - 1 /\ AppendCall(extents)]_arrayVars
  BY ContainedStep
<1> QED
  BY <1>1, <1>2, <1>3, PTL DEF ArraySpec, ListIsKept, StaysContained, ImplementsList, ArrayPromise!Spec

-----------------------------------------------------------------------------
(* xfile.c: xflock, xfunlock *)

\* There is one file to lock.  With two, xfunlock, which is given 0 for either,
\* may close a descriptor of the other one, and the kernel drops that lock.
OneFile == \A k, l \in LockFiles : k = l

\* The kernel knows who is inside, and has one holder for a file.
InsideHolds ==
  /\ holder \in [LockFiles -> Processes \cup {Nobody}]
  /\ inside \in [Processes -> SUBSET LockFiles]
  /\ \A p \in Processes : \A l \in inside[p] : holder[l] = p

LEMMA LockStep ==
  ASSUME OneFile, InsideHolds, [LockNext]_lockVars
  PROVE  InsideHolds'
<1>1. ASSUME NEW p \in Processes, NEW l \in LockFiles, Flock(p, l) PROVE InsideHolds'
  BY <1>1, LockAssumption DEF Flock, InsideHolds
<1>2. ASSUME NEW p \in Processes, NEW l \in LockFiles, FlockTaken(p, l) PROVE InsideHolds'
  BY <1>2 DEF FlockTaken, InsideHolds
<1>3. ASSUME NEW p \in Processes, NEW l \in LockFiles, Funlock(p, l) PROVE InsideHolds'
  <2>1. inside' = [inside EXCEPT ![p] = @ \ {l}]
    BY <1>3 DEF Funlock
  <2>2. holder' = holder \/ holder' = [holder EXCEPT ![l] = IF @ = p THEN Nobody ELSE @]
    BY <1>3 DEF Funlock, Unlocked, OneFile
  <2>3. \A q \in Processes : inside'[q] \subseteq inside[q]
    BY <2>1 DEF InsideHolds
  <2>4. l \notin inside'[p]
    BY <2>1 DEF InsideHolds
  <2> QED
    BY <2>1, <2>2, <2>3, <2>4 DEF InsideHolds
<1>4. ASSUME NEW p \in Processes, Restart(p) PROVE InsideHolds'
  BY <1>4 DEF Restart, InsideHolds
<1>5. CASE UNCHANGED lockVars
  BY <1>5 DEF lockVars, InsideHolds
<1> QED
  BY <1>1, <1>2, <1>3, <1>4, <1>5 DEF LockNext

\* Two processes are never both inside of the one file they lock, although
\* xfunlock closes descriptor 0 whatever that is, and although xflock leaves
\* its descriptors open when it fails.
THEOREM LocksExclude == OneFile => (LockSpec => []LockExcludes)
<1> SUFFICES ASSUME OneFile PROVE LockSpec => []LockExcludes
  OBVIOUS
<1>1. LockInit => InsideHolds
  BY DEF LockInit, InsideHolds
<1>2. InsideHolds /\ [LockNext]_lockVars => InsideHolds'
  BY LockStep
<1>3. InsideHolds => LockExcludes
  BY DEF InsideHolds, LockExcludes
<1> QED
  BY <1>1, <1>2, <1>3, PTL DEF LockSpec

-----------------------------------------------------------------------------
(* xexccmd.c *)

\* A call has returned.
HasReturned(c) == c < call \/ (c = call /\ at = "idle")

\* What a call returned was complete when it did, and its command has ended;
\* a call that is still to come has no command.
ReturnedInv ==
  /\ call \in 0 .. Calls /\ at \in {"idle", "forked", "reading"} /\ got \in Nat
  /\ child \in [Children -> {"none", "running", "zombie", "reaped"}]
  /\ written \in [Children -> Nat] /\ writers \in [Children -> Nat]
  /\ returned \in [Children -> Nat \cup {-1}]
  /\ \A c \in Children \ {0} :
       /\ c > call => child[c] = "none" /\ written[c] = 0 /\ writers[c] = 0 /\ returned[c] = 0
       /\ HasReturned(c) =>
            \/ returned[c] = -1
            \/ child[c] # "running" /\ writers[c] = 0 /\ returned[c] = written[c]

ExecInv == ReturnedInv /\ RestingZombies

LEMMA ExecStep ==
  ASSUME ExecInv, [ExecNext]_execVars
  PROVE  ExecInv'
<1> USE ExecAssumption DEF ExecInv, ReturnedInv, RestingZombies, HasReturned, Children, Goes
<1>1. CASE Fork
  <2>1. /\ at = "idle" /\ at' = "forked" /\ call < Calls /\ call' = call + 1 /\ call \in Nat
        /\ child' = [child EXCEPT ![call + 1] = "running"] /\ got' = 0
        /\ UNCHANGED <<written, writers, returned, handler, pending, waiting, missed>>
    BY <1>1 DEF Fork
  <2>2. call' \in Children /\ child' \in [Children -> {"none", "running", "zombie", "reaped"}]
    BY <2>1
  <2>3. ReturnedInv'
    <3>1. ASSUME NEW c \in Children \ {0}
          PROVE  /\ (c > call)' => (child[c] = "none" /\ written[c] = 0 /\ writers[c] = 0 /\ returned[c] = 0)'
                 /\ HasReturned(c)' => \/ (returned[c] = -1)'
                                      \/ (child[c] # "running" /\ writers[c] = 0 /\ returned[c] = written[c])'
      <4>1. CASE c = call + 1
        BY <2>1, <4>1
      <4>2. CASE c # call + 1
        BY <2>1, <4>2
      <4> QED
        BY <4>1, <4>2
    <3> QED
      BY <2>1, <2>2, <3>1
  <2>4. RestingZombies'
    BY <2>1, <2>2
  <2> QED
    BY <2>3, <2>4
<1>2. CASE ForkFails
  BY <1>2 DEF ForkFails
<1>3. CASE Install
  BY <1>3 DEF Install
<1>4. CASE Read
  BY <1>4 DEF Read
<1>5. CASE ReallocFails
  BY <1>5 DEF ReallocFails, Return
<1>6. CASE ReadEnd
  BY <1>6 DEF ReadEnd, Return
<1>7. ASSUME NEW c \in Children, WriteOut(c) PROVE ExecInv'
  BY SMTT(20), <1>7 DEF WriteOut
<1>8. ASSUME NEW c \in Children, LeaveBehind(c) PROVE ExecInv'
  BY <1>8 DEF LeaveBehind
<1>9. ASSUME NEW c \in Children, BackgroundEnds(c) PROVE ExecInv'
  BY <1>9 DEF BackgroundEnds
<1>10. ASSUME NEW c \in Children, Exit(c) PROVE ExecInv'
  BY <1>10 DEF Exit
<1>11. ASSUME NEW c \in Children, Wait(c) PROVE ExecInv'
  BY <1>11 DEF Wait
<1>12. CASE HandlerStarts
  BY <1>12 DEF HandlerStarts
<1>13. CASE HandlerEnds
  BY <1>13 DEF HandlerEnds
<1>14. CASE UNCHANGED execVars
  BY <1>14 DEF execVars
<1> QED
  BY <1>1, <1>2, <1>3, <1>4, <1>5, <1>6, <1>7, <1>8, <1>9, <1>10, <1>11, <1>12, <1>13, <1>14
     DEF ExecNext

\* A command's output is returned whole, with what the processes it left in
\* the background wrote, and the handler of SIGCHLD leaves no zombie but those
\* that ended before it was installed, however many children a signal stands for.
THEOREM ExecLeavesNothing == ExecSpec => []ExecIsClean
<1>1. ExecInit => ExecInv
  BY ExecAssumption DEF ExecInit, ExecInv, ReturnedInv, RestingZombies, HasReturned, Children
<1>2. ExecInv /\ [ExecNext]_execVars => ExecInv'
  BY ExecStep
<1>3. ExecInv => ExecIsClean
  BY ExecAssumption DEF ExecInv, ReturnedInv, HasReturned, ExecIsClean, OutputIsComplete, Children
<1> QED
  BY <1>1, <1>2, <1>3, PTL DEF ExecSpec

-----------------------------------------------------------------------------
(* xdebug.c: the log *)

\* The end of a sequence, element by element.
LEMMA SuffixIs ==
  ASSUME NEW S, NEW s \in Seq(S), NEW t \in Seq(S)
  PROVE  IsSuffix(s, t) <=>
           /\ Len(s) <= Len(t)
           /\ \A i \in 1 .. Len(s) : s[i] = t[Len(t) - Len(s) + i]
<1> DEFINE r == Reverse(s)
           q == Reverse(t)
<1>1. /\ Len(s) \in Nat /\ Len(t) \in Nat
      /\ r \in Seq(S) /\ Len(r) = Len(s) /\ \A i \in 1 .. Len(s) : r[i] = s[Len(s) - i + 1]
      /\ q \in Seq(S) /\ Len(q) = Len(t) /\ \A i \in 1 .. Len(t) : q[i] = t[Len(t) - i + 1]
  BY DEF Reverse
<1>2. IsSuffix(s, t) <=> Len(r) <= Len(q) /\ SubSeq(r, 1, Len(r)) = SubSeq(q, 1, Len(r))
  BY DEF IsSuffix, IsPrefix
<1> HIDE DEF r, q
<1>3. Len(r) <= Len(q) =>
        (SubSeq(r, 1, Len(r)) = SubSeq(q, 1, Len(r)) <=> \A i \in 1 .. Len(r) : r[i] = q[i])
  <2> SUFFICES ASSUME Len(r) <= Len(q)
               PROVE  SubSeq(r, 1, Len(r)) = SubSeq(q, 1, Len(r)) <=> \A i \in 1 .. Len(r) : r[i] = q[i]
    OBVIOUS
  <2> DEFINE a == SubSeq(r, 1, Len(r))
             b == SubSeq(q, 1, Len(r))
  <2>1. /\ a \in Seq(S) /\ Len(a) = Len(r) /\ \A i \in 1 .. Len(r) : a[i] = r[i]
        /\ b \in Seq(S) /\ Len(b) = Len(r) /\ \A i \in 1 .. Len(r) : b[i] = q[i]
    BY <1>1
  <2> HIDE DEF a, b
  <2>2. a = b <=> \A i \in 1 .. Len(r) : a[i] = b[i]
    BY <2>1, SeqEqual
  <2> QED
    BY <2>1, <2>2 DEF a, b
<1>4. Len(s) <= Len(t) =>
        ((\A i \in 1 .. Len(r) : r[i] = q[i]) <=>
         \A i \in 1 .. Len(s) : s[i] = t[Len(t) - Len(s) + i])
  <2> SUFFICES ASSUME Len(s) <= Len(t)
               PROVE  (\A i \in 1 .. Len(r) : r[i] = q[i]) <=>
                        \A i \in 1 .. Len(s) : s[i] = t[Len(t) - Len(s) + i]
    OBVIOUS
  <2>1. ASSUME \A i \in 1 .. Len(r) : r[i] = q[i], NEW i \in 1 .. Len(s)
        PROVE  s[i] = t[Len(t) - Len(s) + i]
    <3>1. /\ Len(s) - i + 1 \in 1 .. Len(r) /\ Len(s) - i + 1 \in 1 .. Len(t)
          /\ Len(s) - (Len(s) - i + 1) + 1 = i
          /\ Len(t) - (Len(s) - i + 1) + 1 = Len(t) - Len(s) + i
      BY <1>1
    <3> QED
      BY ZenonT(30), <1>1, <2>1, <3>1
  <2>2. ASSUME \A i \in 1 .. Len(s) : s[i] = t[Len(t) - Len(s) + i], NEW i \in 1 .. Len(r)
        PROVE  r[i] = q[i]
    <3>1. /\ Len(s) - i + 1 \in 1 .. Len(s) /\ i \in 1 .. Len(t)
          /\ Len(t) - Len(s) + (Len(s) - i + 1) = Len(t) - i + 1
      BY <1>1
    <3> QED
      BY <1>1, <2>2, <3>1
  <2> QED
    BY <2>1, <2>2
<1> QED
  BY <1>1, <1>2, <1>3, <1>4

\* Two files that are the end of a log stay its end when a message is added to
\* both, when the first is dropped, and when that comes first.
LEMMA SuffixGrows ==
  ASSUME NEW S, NEW s \in Seq(S), NEW d \in Seq(S), NEW t \in Seq(S), NEW e \in S,
         IsSuffix(s \o d, t)
  PROVE  /\ IsSuffix(s \o Append(d, e), Append(t, e))
         /\ IsSuffix(d \o <<>>, t)
         /\ IsSuffix(d \o Append(<<>>, e), Append(t, e))
<1> DEFINE sd == s \o d
           one == s \o Append(d, e)
           two == d \o Append(<<>>, e)
           longer == Append(t, e)
<1>1. /\ Len(s) \in Nat /\ Len(d) \in Nat /\ Len(t) \in Nat
      /\ sd \in Seq(S) /\ Len(sd) = Len(s) + Len(d)
      /\ \A i \in 1 .. Len(d) : sd[Len(s) + i] = d[i]
      /\ one \in Seq(S) /\ Len(one) = Len(sd) + 1 /\ one[Len(one)] = e
      /\ \A i \in 1 .. Len(sd) : one[i] = sd[i]
  OBVIOUS
<1>2. /\ two \in Seq(S) /\ Len(two) = Len(d) + 1 /\ two[Len(two)] = e
      /\ \A i \in 1 .. Len(d) : two[i] = d[i]
      /\ longer \in Seq(S) /\ Len(longer) = Len(t) + 1 /\ longer[Len(longer)] = e
      /\ \A i \in 1 .. Len(t) : longer[i] = t[i]
      /\ d \o <<>> = d
  OBVIOUS
<1>3. Len(sd) <= Len(t) /\ \A i \in 1 .. Len(sd) : sd[i] = t[Len(t) - Len(sd) + i]
  BY <1>1, SuffixIs
<1> HIDE DEF sd, one, two, longer
<1>4. IsSuffix(one, longer)
  <2>1. ASSUME NEW i \in 1 .. Len(one)
        PROVE  one[i] = longer[Len(longer) - Len(one) + i]
    <3>1. CASE i = Len(one)
      BY <1>1, <1>2, <1>3, <3>1
    <3>2. CASE i # Len(one)
      <4>1. /\ i \in 1 .. Len(sd) /\ Len(longer) - Len(one) + i = Len(t) - Len(sd) + i
            /\ Len(t) - Len(sd) + i \in 1 .. Len(t)
        BY <1>1, <1>2, <1>3, <3>2
      <4> QED
        BY <1>1, <1>2, <1>3, <4>1
    <3> QED
      BY <3>1, <3>2
  <2>2. one \in Seq(S) /\ longer \in Seq(S) /\ Len(one) <= Len(longer)
    BY <1>1, <1>2, <1>3
  <2> QED
    BY <2>1, <2>2, SuffixIs
<1>5. \A i \in 1 .. Len(d) : d[i] = t[Len(t) - Len(d) + i]
  <2> SUFFICES ASSUME NEW i \in 1 .. Len(d) PROVE d[i] = t[Len(t) - Len(d) + i]
    OBVIOUS
  <2>1. Len(s) + i \in 1 .. Len(sd) /\ Len(t) - Len(sd) + (Len(s) + i) = Len(t) - Len(d) + i
    BY <1>1
  <2> QED
    BY <1>1, <1>3, <2>1
<1>6. Len(d) <= Len(t)
  BY <1>1, <1>3
<1>7. IsSuffix(d, t)
  BY <1>5, <1>6, SuffixIs
<1>8. IsSuffix(two, longer)
  <2>1. ASSUME NEW i \in 1 .. Len(two)
        PROVE  two[i] = longer[Len(longer) - Len(two) + i]
    <3>1. CASE i = Len(two)
      BY <1>1, <1>2, <1>6, <3>1
    <3>2. CASE i # Len(two)
      <4>1. /\ i \in 1 .. Len(d) /\ Len(longer) - Len(two) + i = Len(t) - Len(d) + i
            /\ Len(t) - Len(d) + i \in 1 .. Len(t)
        BY <1>1, <1>2, <1>6, <3>2
      <4> QED
        BY <1>2, <1>5, <4>1
    <3> QED
      BY <3>1, <3>2
  <2>2. two \in Seq(S) /\ longer \in Seq(S) /\ Len(two) <= Len(longer)
    BY <1>1, <1>2, <1>6
  <2> QED
    BY <2>1, <2>2, SuffixIs
<1> QED
  BY <1>2, <1>4, <1>7, <1>8 DEF one, two, longer

\* A message in a file.
Line == [no : Nat, len : Nat]

\* The inductive invariant of the log.
LogInv ==
  /\ file \in Names /\ fsize \in Nat /\ message \in Nat /\ size \in [Names -> Nat]
  /\ disk \in [Names -> Seq(Line)] /\ swap \in [Names -> Seq(Line)] /\ logged \in [Names -> Seq(Line)]
  /\ KeepsTheLatest

\* A file that is swapped does not come from nowhere: the name stays.
LEMMA RedirectKeeps ==
  ASSUME file \in Names, Redirect(file, TRUE) \/ Redirect(file, FALSE)
  PROVE  file' = file /\ (file \in LogFiles /\ Redirect(file, TRUE) => fp' = "file")
BY LogAssumption DEF Redirect, Redirected, Names, AfterClose

\* What a message changes, with the message as one thing.
LEMMA WritingIs ==
  ASSUME LogInv, NEW before, NEW sizes, NEW len \in LineLengths, file' = file,
         WriteMessage(before, sizes, len)
  PROVE  \E line \in Line :
           /\ line.len = len /\ message' = message + 1
           /\ \/ /\ fp' = "file"
                 /\ disk' = [before EXCEPT ![file] = Append(@, line)]
                 /\ logged' = [logged EXCEPT ![file] = Append(@, line)]
                 /\ size' = [sizes EXCEPT ![file] = @ + len]
              \/ fp' # "file" /\ disk' = before /\ logged' = logged /\ size' = sizes
<1> DEFINE line == [no |-> message + 1, len |-> len]
<1>1. line \in Line /\ line.len = len
  BY LogAssumption DEF Line, LogInv
<1>2. /\ disk' = WriteTo(before, line) /\ logged' = WriteTo(logged, line) /\ message' = message + 1
      /\ size' = IF fp' = "file" THEN [sizes EXCEPT ![file'] = @ + len] ELSE sizes
  BY DEF WriteMessage
<1> HIDE DEF line
<1> QED
  BY <1>1, <1>2 DEF WriteTo

\* A message is added to what is on disk, or to neither.
LEMMA WritingKeeps ==
  ASSUME LogInv, NEW len \in LineLengths, file' = file, WriteMessage(disk, size, len),
         UNCHANGED <<fsize, swap>>
  PROVE  LogInv'
<1>1. PICK line \in Line :
        /\ line.len = len /\ message' = message + 1
        /\ \/ /\ fp' = "file"
              /\ disk' = [disk EXCEPT ![file] = Append(@, line)]
              /\ logged' = [logged EXCEPT ![file] = Append(@, line)]
              /\ size' = [size EXCEPT ![file] = @ + len]
           \/ fp' # "file" /\ disk' = disk /\ logged' = logged /\ size' = size
  BY WritingIs
<1>2. CASE fp' = "file"
  <2>1. /\ disk' = [disk EXCEPT ![file] = Append(@, line)]
        /\ logged' = [logged EXCEPT ![file] = Append(@, line)]
    BY <1>1, <1>2
  <2>2. disk' \in [Names -> Seq(Line)] /\ logged' \in [Names -> Seq(Line)]
    BY <2>1 DEF LogInv
  <2>3. ASSUME NEW f \in LogFiles PROVE IsSuffix(swap'[f] \o disk'[f], logged'[f])
    <3>1. f \in Names /\ IsSuffix(swap[f] \o disk[f], logged[f])
      BY DEF Names, LogInv, KeepsTheLatest
    <3>2. CASE f = file
      <4>1. swap[f] \in Seq(Line) /\ disk[f] \in Seq(Line) /\ logged[f] \in Seq(Line)
        BY <3>1 DEF LogInv
      <4>2. IsSuffix(swap[f] \o Append(disk[f], line), Append(logged[f], line))
        BY <3>1, <4>1, SuffixGrows
      <4> QED
        BY <2>1, <3>1, <3>2, <4>2 DEF LogInv
    <3>3. CASE f # file
      BY <2>1, <3>1, <3>3 DEF LogInv
    <3> QED
      BY <3>2, <3>3
  <2>4. size' \in [Names -> Nat] /\ message' \in Nat
    <3>1. /\ message' = message + 1 /\ size' = [size EXCEPT ![file] = @ + len]
          /\ message \in Nat /\ size \in [Names -> Nat] /\ file \in Names /\ len \in Nat
      BY <1>1, <1>2, LogAssumption DEF LogInv
    <3> QED
      BY <3>1
  <2> QED
    BY <2>2, <2>3, <2>4 DEF LogInv, KeepsTheLatest
<1>3. CASE fp' # "file"
  BY <1>1, <1>3 DEF LogInv, KeepsTheLatest
<1> QED
  BY <1>2, <1>3

\* The file is emptied, and its messages are those of the swap file.
LEMMA SwappingKeeps ==
  ASSUME LogInv, swap' = Swapped, file' = file, UNCHANGED fsize,
         \/ \E len \in LineLengths : WriteMessage(EmptyDisk, EmptySize, len)
         \/ disk' = EmptyDisk /\ size' = EmptySize /\ UNCHANGED <<logged, message>>
  PROVE  LogInv'
<1>1. file \in Names /\ EmptySize \in [Names -> Nat] /\ EmptyDisk = [disk EXCEPT ![file] = <<>>]
  BY DEF LogInv, EmptySize, EmptyDisk
<1>2. \/ \E line \in Line : /\ disk' = [disk EXCEPT ![file] = Append(<<>>, line)]
                            /\ logged' = [logged EXCEPT ![file] = Append(@, line)]
      \/ disk' = [disk EXCEPT ![file] = <<>>] /\ logged' = logged
  <2>1. ASSUME NEW len \in LineLengths, WriteMessage(EmptyDisk, EmptySize, len)
        PROVE  \/ \E line \in Line : /\ disk' = [disk EXCEPT ![file] = Append(<<>>, line)]
                                       /\ logged' = [logged EXCEPT ![file] = Append(@, line)]
               \/ disk' = [disk EXCEPT ![file] = <<>>] /\ logged' = logged
    <3>1. PICK line \in Line :
            \/ /\ disk' = [EmptyDisk EXCEPT ![file] = Append(@, line)]
               /\ logged' = [logged EXCEPT ![file] = Append(@, line)]
            \/ disk' = EmptyDisk /\ logged' = logged
      BY <2>1, WritingIs
    <3>2. [EmptyDisk EXCEPT ![file] = Append(@, line)] = [disk EXCEPT ![file] = Append(<<>>, line)]
      BY <1>1 DEF LogInv
    <3> QED
      BY <1>1, <3>1, <3>2
  <2> QED
    BY <1>1, <2>1
<1>3. size' \in [Names -> Nat] /\ message' \in Nat
  <2>1. ASSUME NEW len \in LineLengths, WriteMessage(EmptyDisk, EmptySize, len)
        PROVE  size' \in [Names -> Nat] /\ message' \in Nat
    <3>1. message' = message + 1 /\ size' \in {EmptySize, [EmptySize EXCEPT ![file] = @ + len]}
      BY <2>1, WritingIs
    <3>2. message \in Nat /\ len \in Nat
      BY LogAssumption DEF LogInv
    <3> QED
      BY <1>1, <3>1, <3>2
  <2> QED
    BY <1>1, <2>1 DEF LogInv
<1>4. swap' = [swap EXCEPT ![file] = disk[file]]
  BY DEF Swapped
<1>5. /\ disk' \in [Names -> Seq(Line)] /\ swap' \in [Names -> Seq(Line)]
      /\ logged' \in [Names -> Seq(Line)]
  <2>1. disk[file] \in Seq(Line)
    BY <1>1 DEF LogInv
  <2>2. \A line \in Line : Append(<<>>, line) \in Seq(Line) /\ Append(logged[file], line) \in Seq(Line)
    BY <1>1 DEF LogInv
  <2>3. <<>> \in Seq(Line) /\ disk \in [Names -> Seq(Line)] /\ swap \in [Names -> Seq(Line)]
        /\ logged \in [Names -> Seq(Line)]
    BY DEF LogInv
  <2> QED
    BY <1>2, <1>4, <2>1, <2>2, <2>3
<1>6. ASSUME NEW f \in LogFiles PROVE IsSuffix(swap'[f] \o disk'[f], logged'[f])
  <2>1. f \in Names /\ IsSuffix(swap[f] \o disk[f], logged[f])
    BY DEF Names, LogInv, KeepsTheLatest
  <2>2. swap[f] \in Seq(Line) /\ disk[f] \in Seq(Line) /\ logged[f] \in Seq(Line)
    BY <2>1 DEF LogInv
  <2>3. CASE f = file
    <3>1. swap'[f] = disk[f]
      BY <1>4, <2>1, <2>3 DEF LogInv
    <3>2. ASSUME NEW line \in Line,
                 disk' = [disk EXCEPT ![file] = Append(<<>>, line)],
                 logged' = [logged EXCEPT ![file] = Append(@, line)]
          PROVE  IsSuffix(swap'[f] \o disk'[f], logged'[f])
      <4>1. IsSuffix(disk[f] \o Append(<<>>, line), Append(logged[f], line))
        BY <2>1, <2>2, SuffixGrows
      <4> QED
        BY <2>1, <2>3, <3>1, <3>2, <4>1 DEF LogInv
    <3>3. CASE disk' = [disk EXCEPT ![file] = <<>>] /\ logged' = logged
      <4>1. PICK line : line \in Line
        <5>1. [no |-> 0, len |-> 0] \in Line
          BY DEF Line
        <5> QED
          BY <5>1
      <4>2. IsSuffix(disk[f] \o <<>>, logged[f])
        BY <2>1, <2>2, <4>1, SuffixGrows
      <4> QED
        BY <2>1, <2>3, <3>1, <3>3, <4>2 DEF LogInv
    <3> QED
      BY <1>2, <3>2, <3>3
  <2>4. CASE f # file
    <3>1. swap'[f] = swap[f] /\ disk'[f] = disk[f] /\ logged'[f] = logged[f]
      BY <1>2, <1>4, <2>1, <2>4 DEF LogInv
    <3> QED
      BY <2>1, <3>1
  <2> QED
    BY <2>3, <2>4
<1> QED
  BY <1>1, <1>3, <1>5, <1>6 DEF LogInv, KeepsTheLatest

LEMMA LogStep ==
  ASSUME LogInv, [LogNext]_logVars
  PROVE  LogInv'
<1>1. ASSUME NEW name \in LogFiles \cup {"syslog", "stdout", "stderr"}, NEW opened \in BOOLEAN,
             SetFile(name, opened)
      PROVE  LogInv'
  BY <1>1 DEF SetFile, Redirect, Redirected, Names, LogInv, KeepsTheLatest
<1>2. CASE SetNoFile
  BY <1>2 DEF SetNoFile, LogInv, KeepsTheLatest
<1>3. ASSUME NEW l \in Levels, SetLevel(l) PROVE LogInv'
  BY <1>3 DEF SetLevel, LogInv, KeepsTheLatest
<1>4. ASSUME NEW l \in Levels, NEW len \in LineLengths, Log(l, len) PROVE LogInv'
  BY <1>4, WritingKeeps DEF Log
<1>5. ASSUME NEW l \in Levels, NEW len \in LineLengths, LogSwapping(l, len) PROVE LogInv'
  <2>1. file' = file
    BY <1>5, RedirectKeeps DEF LogSwapping, LogInv
  <2> QED
    BY <1>5, <2>1, SwappingKeeps DEF LogSwapping
<1>6. ASSUME NEW l \in Levels, LogCrashing(l) PROVE LogInv'
  <2>1. file' = file
    BY <1>6, RedirectKeeps DEF LogCrashing, LogInv
  <2> QED
    BY <1>6, <2>1, SwappingKeeps DEF LogCrashing
<1>7. ASSUME NEW n \in LogSizes, SetSize(n) PROVE LogInv'
  BY <1>7, LogAssumption DEF SetSize, LogInv, KeepsTheLatest
<1>8. CASE UNCHANGED logVars
  BY <1>8 DEF logVars, LogInv, KeepsTheLatest
<1> QED
  BY <1>1, <1>2, <1>3, <1>4, <1>5, <1>6, <1>7, <1>8 DEF LogNext

\* A message goes to a file that is below its limit, or was emptied for it.
LEMMA LimitStep ==
  ASSUME LogInv, [LogNext]_logVars, NEW f \in LogFiles,
         disk'[f] \notin {disk[f], <<>>}, fsize # 0
  PROVE  size'[f] - Last(disk'[f]).len < fsize
<1>1. /\ f \in Names /\ file \in Names /\ fsize \in Nat /\ size \in [Names -> Nat]
      /\ disk \in [Names -> Seq(Line)]
  BY DEF LogInv, Names
<1>2. \A s \in Seq(Line), line \in Line :
        /\ Append(s, line)[Len(Append(s, line))] = line
        /\ Last(Append(s, line)) = line
  BY DEF Last
<1>3. ASSUME NEW l \in Levels, NEW len \in LineLengths, Log(l, len)
      PROVE  size'[f] - Last(disk'[f]).len < fsize
  <2>1. file' = file /\ fp' = fp /\ WriteMessage(disk, size, len)
    BY <1>3 DEF Log
  <2>2. PICK line \in Line :
          /\ line.len = len /\ fp' = "file"
          /\ disk' = [disk EXCEPT ![file] = Append(@, line)]
          /\ size' = [size EXCEPT ![file] = @ + len]
    BY <2>1, WritingIs
  <2>3. f = file
    BY <1>1, <2>2
  <2>4. disk'[f] = Append(disk[f], line) /\ size'[f] = size[f] + len /\ disk[f] \in Seq(Line)
    BY <1>1, <2>2, <2>3
  <2>5. size[f] < fsize
    BY <1>1, <1>3, <2>1, <2>2, <2>3 DEF Log, IsFullFile
  <2>6. size[f] \in Nat /\ len \in Nat /\ Last(disk'[f]).len = len
    BY <1>1, <1>2, <2>2, <2>4, LogAssumption
  <2> QED
    BY <1>1, <2>4, <2>5, <2>6
<1>4. ASSUME NEW l \in Levels, NEW len \in LineLengths, LogSwapping(l, len)
      PROVE  size'[f] - Last(disk'[f]).len < fsize
  <2>1. file' = file /\ WriteMessage(EmptyDisk, EmptySize, len)
    BY <1>1, <1>4, RedirectKeeps DEF LogSwapping
  <2>2. /\ EmptyDisk = [disk EXCEPT ![file] = <<>>]
        /\ EmptySize = [size EXCEPT ![file] = 0]
    BY DEF EmptyDisk, EmptySize
  <2>3. PICK line \in Line :
          /\ line.len = len
          /\ \/ /\ disk' = [EmptyDisk EXCEPT ![file] = Append(@, line)]
                /\ size' = [EmptySize EXCEPT ![file] = @ + len]
             \/ disk' = EmptyDisk
    BY <2>1, WritingIs
  <2>4. f = file
    BY <1>1, <2>2, <2>3
  <2>5. disk'[f] = Append(<<>>, line) /\ size'[f] = 0 + len
    BY <1>1, <2>2, <2>3, <2>4
  <2>6. <<>> \in Seq(Line)
    OBVIOUS
  <2>7. Last(disk'[f]).len = len
    <3>1. Last(Append(<<>>, line)) = line
      BY <1>2, <2>6
    <3> QED
      BY <2>3, <2>5, <3>1
  <2>8. len \in Nat
    BY LogAssumption
  <2> QED
    BY <1>1, <2>5, <2>7, <2>8
<1>5. ASSUME NEW l \in Levels, LogCrashing(l)
      PROVE  size'[f] - Last(disk'[f]).len < fsize
  BY <1>1, <1>5 DEF LogCrashing, EmptyDisk
<1> QED
  BY <1>3, <1>4, <1>5 DEF LogNext, SetFile, SetNoFile, SetLevel, SetSize, logVars

\* A log and its swap file have the latest messages without a gap, and a log
\* was below its limit before its last message, wherever xlogfile directs the
\* messages in between, however long they are, whatever limits xlogfsize sets.
THEOREM LogKeepsTheLatest == LogSpec => LogIsKept
<1>1. LogInit => LogInv
  <2> SUFFICES ASSUME LogInit PROVE LogInv
    OBVIOUS
  <2>1. <<>> \in Seq(Line) /\ IsSuffix(<<>> \o <<>>, <<>>)
    <3>1. <<>> \o <<>> = <<>> /\ <<>> \in Seq(Line) /\ Len(<<>>) = 0
      OBVIOUS
    <3>2. IsSuffix(<<>>, <<>>)
      <4> DEFINE none == <<>>
      <4>1. none \in Seq(Line) /\ Len(none) = 0
        BY <3>1
      <4> HIDE DEF none
      <4>2. Len(none) <= Len(none) /\ 1 .. Len(none) = {}
        BY <4>1
      <4>3. IsSuffix(none, none)
        BY <4>1, <4>2, SuffixIs
      <4> QED
        BY <4>3 DEF none
    <3> QED
      BY <3>1, <3>2
  <2>2. disk = [f \in Names |-> <<>>] /\ swap = disk /\ logged = disk
    BY DEF LogInit
  <2>3. KeepsTheLatest
    BY <2>1, <2>2 DEF KeepsTheLatest, Names
  <2> QED
    BY <2>1, <2>2, <2>3, LogAssumption DEF LogInit, LogInv, Names
<1>2. LogInv /\ [LogNext]_logVars => LogInv'
  BY LogStep
<1>3. LogInv => KeepsTheLatest
  BY DEF LogInv
<1>4. LogInv /\ [LogNext]_logVars =>
        [\A f \in LogFiles :
           disk'[f] \notin {disk[f], <<>>} /\ fsize # 0
             => size'[f] - Last(disk'[f]).len < fsize]_logVars
  BY LimitStep
<1> QED
  BY <1>1, <1>2, <1>3, <1>4, PTL DEF LogSpec, LogIsKept, PassesLimitOnce

-----------------------------------------------------------------------------
(* xipcmsg.c: messages over TCP *)

Pairs == Nat \X Nat
Size(n) == HeaderSize + Lengths[n]

\* A word of a message, and the word that is sent after it.
IsWord(w) == w[1] \in 1 .. Len(Lengths) /\ w[2] \in 1 .. Size(w[1])
After(w) == IF w[2] < Size(w[1]) THEN <<w[1], w[2] + 1>> ELSE <<w[1] + 1, 1>>

\* The words of a stream and the one that is to be sent next.
WordAt(s, e, j) == IF j <= Len(s) THEN s[j] ELSE e

\* The words of a stream follow each other up to e, which is to be sent next;
\* none is of a message behind n.
Follows(s, e, n) ==
  /\ s \in Seq(Pairs) /\ e \in Pairs
  /\ \A j \in 1 .. Len(s) : IsWord(s[j]) /\ WordAt(s, e, j + 1) = After(s[j])
  /\ \A j \in 1 .. Len(s) + 1 : WordAt(s, e, j)[1] \in 1 .. n /\ WordAt(s, e, j)[2] >= 1

LEMMA LengthsAre ==
  /\ Len(Lengths) \in Nat
  /\ \A n \in 1 .. Len(Lengths) : Lengths[n] \in Nat \ {0} /\ Size(n) \in Nat /\ Size(n) >= 3
BY TcpAssumption DEF Size, HeaderSize

\* What recv leaves of a stream.
LEMMA TakenFollows ==
  ASSUME NEW s, NEW e, NEW n \in Nat, Follows(s, e, n), NEW k \in 0 .. Len(s)
  PROVE  /\ Follows(SubSeq(s, k + 1, Len(s)), e, n)
         /\ WordAt(SubSeq(s, k + 1, Len(s)), e, 1) = WordAt(s, e, k + 1)
<1> DEFINE r == SubSeq(s, k + 1, Len(s))
<1>1. /\ s \in Seq(Pairs) /\ Len(s) \in Nat
      /\ r \in Seq(Pairs) /\ Len(r) = Len(s) - k
      /\ \A j \in 1 .. Len(s) - k : r[j] = s[j + k]
  BY DEF Follows
<1> HIDE DEF r
<1>2. \A j \in 1 .. Len(s) - k + 1 : WordAt(r, e, j) = WordAt(s, e, j + k)
  BY <1>1 DEF WordAt
<1>3. ASSUME NEW j \in 1 .. Len(r) PROVE IsWord(r[j]) /\ WordAt(r, e, j + 1) = After(r[j])
  <2>1. /\ j + k \in 1 .. Len(s) /\ (j + 1) + k = (j + k) + 1
        /\ j + 1 \in 1 .. Len(s) - k + 1 /\ j \in 1 .. Len(s) - k
    <3>1. \A l \in Nat : \A i \in 1 .. l - k :
            /\ i + k \in 1 .. l /\ (i + 1) + k = (i + k) + 1
            /\ i + 1 \in 1 .. l - k + 1
      OBVIOUS
    <3>2. j \in 1 .. Len(s) - k
      BY <1>1
    <3> QED
      BY <1>1, <3>1, <3>2
  <2>2. r[j] = s[j + k] /\ WordAt(r, e, j + 1) = WordAt(s, e, (j + k) + 1)
    BY <1>1, <1>2, <2>1
  <2> QED
    BY <2>1, <2>2 DEF Follows
<1>4. ASSUME NEW j \in 1 .. Len(r) + 1
      PROVE  WordAt(r, e, j)[1] \in 1 .. n /\ WordAt(r, e, j)[2] >= 1
  <2>1. j + k \in 1 .. Len(s) + 1 /\ j \in 1 .. Len(s) - k + 1
    BY <1>1
  <2> QED
    BY <1>2, <2>1 DEF Follows
<1>5. WordAt(r, e, 1) = WordAt(s, e, k + 1)
  BY <1>1, <1>2
<1>6. e \in Pairs
  BY DEF Follows
<1>7. Follows(r, e, n)
  BY <1>1, <1>3, <1>4, <1>6 DEF Follows
<1> QED
  BY <1>5, <1>7 DEF r

\* What send adds of a message to a stream that is at its beginning.
LEMMA SentFollows ==
  ASSUME NEW s, NEW m \in 1 .. Len(Lengths), NEW n \in Nat, Follows(s, <<m, 1>>, n),
         NEW k \in 0 .. Size(m), NEW b \in Nat, n <= b,
         NEW e, k < Size(m) => e = <<m, k + 1>>, k = Size(m) => e = <<m + 1, 1>> /\ m + 1 <= b
  PROVE  /\ Follows(s \o SubSeq(MsgWords(m), 1, k), e, b)
         /\ WordAt(s \o SubSeq(MsgWords(m), 1, k), e, 1) = WordAt(s, <<m, 1>>, 1)
<1> DEFINE x == SubSeq(MsgWords(m), 1, k)
<1> DEFINE r == s \o x
<1>1. /\ Size(m) \in Nat /\ Size(m) >= 3 /\ m \in Nat
      /\ e = IF k < Size(m) THEN <<m, k + 1>> ELSE <<m + 1, 1>>
  BY LengthsAre
<1>2. /\ MsgWords(m) \in Seq(Pairs) /\ Len(MsgWords(m)) = Size(m)
      /\ \A i \in 1 .. Size(m) : MsgWords(m)[i] = <<m, i>>
  <2>1. MsgWords(m) = [i \in 1 .. Size(m) |-> <<m, i>>]
    BY DEF MsgWords, Size
  <2>2. \A i \in 1 .. Size(m) : <<m, i>> \in Pairs
    BY <1>1 DEF Pairs
  <2>3. MsgWords(m) \in [1 .. Size(m) -> Pairs]
    BY <2>1, <2>2
  <2>4. \A N \in Nat : \A f \in [1 .. N -> Pairs] : f \in Seq(Pairs) /\ Len(f) = N
    OBVIOUS
  <2>5. \A i \in 1 .. Size(m) : MsgWords(m)[i] = <<m, i>>
    BY <2>1
  <2> QED
    BY <1>1, <2>3, <2>4, <2>5
<1>3. x \in Seq(Pairs) /\ Len(x) = k /\ \A i \in 1 .. k : x[i] = <<m, i>>
  <2> HIDE DEF r
  <2> QED
    BY <1>1, <1>2
<1>4. s \in Seq(Pairs) /\ Len(s) \in Nat /\ k \in Nat
  BY <1>1 DEF Follows
<1>5. /\ r \in Seq(Pairs) /\ Len(r) = Len(s) + k
      /\ \A j \in 1 .. Len(s) : r[j] = s[j]
      /\ \A j \in 1 .. k : r[Len(s) + j] = <<m, j>>
  <2>1. /\ r \in Seq(Pairs) /\ Len(r) = Len(s) + Len(x)
        /\ \A j \in 1 .. Len(s) : r[j] = s[j]
        /\ \A j \in 1 .. Len(x) : r[Len(s) + j] = x[j]
    <3>1. \A p, q \in Seq(Pairs) :
            /\ p \o q \in Seq(Pairs) /\ Len(p \o q) = Len(p) + Len(q)
            /\ \A j \in 1 .. Len(p) : (p \o q)[j] = p[j]
            /\ \A j \in 1 .. Len(q) : (p \o q)[Len(p) + j] = q[j]
      OBVIOUS
    <3> HIDE DEF x
    <3> QED
      BY <1>3, <1>4, <3>1
  <2> QED
    BY <1>3, <2>1
<1> HIDE DEF r
<1>6. e \in Pairs /\ e[1] \in 1 .. b /\ e[2] >= 1 /\ m <= b
  <2>1. m \in 1 .. n
    <3>1. Len(s) + 1 \in 1 .. Len(s) + 1 /\ ~ (Len(s) + 1 <= Len(s))
      BY <1>4
    <3>2. WordAt(s, <<m, 1>>, Len(s) + 1) = <<m, 1>>
      BY <3>1 DEF WordAt
    <3> QED
      BY SMTT(20), <3>1, <3>2 DEF Follows
  <2>2. m <= b /\ m \in Nat /\ Size(m) \in Nat
    BY <1>1, <2>1
  <2>3. CASE k < Size(m)
    BY <1>1, <1>4, <2>2, <2>3 DEF Pairs
  <2>4. CASE k = Size(m)
    BY <1>1, <1>4, <2>2, <2>4 DEF Pairs
  <2> QED
    BY <1>1, <1>4, <2>3, <2>4
<1>7. \A i \in 1 .. k + 1 : WordAt(r, e, Len(s) + i) = IF i <= k THEN <<m, i>> ELSE e
  <2> SUFFICES ASSUME NEW i \in 1 .. k + 1
               PROVE  WordAt(r, e, Len(s) + i) = IF i <= k THEN <<m, i>> ELSE e
    OBVIOUS
  <2>1. Len(s) + i <= Len(r) <=> i <= k
    BY <1>4, <1>5
  <2>2. CASE i <= k
    <3>1. i \in 1 .. k
      BY <1>4, <2>2
    <3> QED
      BY <1>5, <2>1, <2>2, <3>1 DEF WordAt
  <2>3. CASE ~ (i <= k)
    BY <2>1, <2>3 DEF WordAt
  <2> QED
    BY <2>2, <2>3
<1>8. WordAt(r, e, Len(s) + 1) = <<m, 1>>
  <2>0. 1 \in 1 .. k + 1
    BY <1>4
  <2>1. CASE k = 0
    <3>1. ~ (1 <= k) /\ k < Size(m) /\ k + 1 = 1
      BY <1>1, <2>1
    <3> QED
      BY <1>7, <2>0, <3>1
  <2>2. CASE k # 0
    <3>1. 1 <= k
      BY <1>4, <2>2
    <3> QED
      BY <1>7, <2>0, <3>1
  <2> QED
    BY <2>1, <2>2
<1>9. \A j \in 1 .. Len(s) + 1 : WordAt(r, e, j) = WordAt(s, <<m, 1>>, j)
  <2> SUFFICES ASSUME NEW j \in 1 .. Len(s) + 1
               PROVE  WordAt(r, e, j) = WordAt(s, <<m, 1>>, j)
    OBVIOUS
  <2>1. CASE j = Len(s) + 1
    BY <1>4, <1>8, <2>1 DEF WordAt
  <2>2. CASE j # Len(s) + 1
    BY <1>4, <1>5, <2>2 DEF WordAt
  <2> QED
    BY <2>1, <2>2
<1>10. ASSUME NEW j \in 1 .. Len(r) PROVE IsWord(r[j]) /\ WordAt(r, e, j + 1) = After(r[j])
  <2>1. CASE j <= Len(s)
    <3>1. j \in 1 .. Len(s) /\ j + 1 \in 1 .. Len(s) + 1
      BY <1>4, <1>5, <2>1
    <3> QED
      BY <1>5, <1>9, <3>1 DEF Follows
  <2>2. CASE ~ (j <= Len(s))
    <3> DEFINE i == j - Len(s)
    <3>1. i \in 1 .. k /\ Len(s) + i = j /\ Len(s) + (i + 1) = j + 1 /\ i + 1 \in 1 .. k + 1
      BY <1>4, <1>5, <2>2
    <3>2. r[j] = <<m, i>>
      BY <1>5, <3>1
    <3>3. WordAt(r, e, j + 1) = IF i + 1 <= k THEN <<m, i + 1>> ELSE e
      BY <1>7, <3>1
    <3>4. i \in 1 .. Size(m)
      BY <1>1, <3>1
    <3>5. i + 1 <= k \/ i = k
      BY <1>4, <3>1
    <3> HIDE DEF i
    <3>6. After(<<m, i>>) = IF i < Size(m) THEN <<m, i + 1>> ELSE <<m + 1, 1>>
      BY DEF After
    <3>7. WordAt(r, e, j + 1) = After(<<m, i>>)
      <4>1. CASE i + 1 <= k
        <5>1. i < Size(m)
          BY <1>1, <1>4, <3>1, <4>1
        <5> QED
          BY <3>3, <3>6, <4>1, <5>1
      <4>2. CASE i = k /\ ~ (i + 1 <= k)
        <5>1. WordAt(r, e, j + 1) = e
          BY <3>3, <4>2
        <5>2. k = i
          BY <4>2
        <5>3. e = After(<<m, i>>)
          BY <1>1, <3>6, <5>2
        <5> QED
          BY <5>1, <5>3
      <4>3. ~ (k + 1 <= k)
        BY <1>4
      <4> QED
        BY <3>5, <4>1, <4>2, <4>3
    <3> QED
      BY <3>2, <3>4, <3>7 DEF IsWord
  <2> QED
    BY <2>1, <2>2
<1>11. ASSUME NEW j \in 1 .. Len(r) + 1
       PROVE  WordAt(r, e, j)[1] \in 1 .. b /\ WordAt(r, e, j)[2] >= 1
  <2>1. CASE j <= Len(s) + 1
    <3>1. j \in 1 .. Len(s) + 1
      BY <1>4, <1>5, <2>1
    <3>2. WordAt(s, <<m, 1>>, j)[1] \in 1 .. n /\ WordAt(s, <<m, 1>>, j)[2] >= 1
      BY <3>1 DEF Follows
    <3> QED
      BY <1>9, <3>1, <3>2
  <2>2. CASE ~ (j <= Len(s) + 1)
    <3> DEFINE i == j - Len(s)
    <3>1. i \in 1 .. k + 1 /\ Len(s) + i = j /\ i >= 1
      BY <1>4, <1>5, <2>2
    <3>2. WordAt(r, e, j) = IF i <= k THEN <<m, i>> ELSE e
      BY <1>7, <3>1
    <3>3. m \in 1 .. b
      BY <1>1, <1>6
    <3> HIDE DEF i
    <3> QED
      BY <1>6, <3>1, <3>2, <3>3
  <2> QED
    BY <2>1, <2>2
<1>12. Follows(r, e, b)
  BY <1>5, <1>6, <1>10, <1>11 DEF Follows
<1>13. WordAt(r, e, 1) = WordAt(s, <<m, 1>>, 1)
  <2>1. 1 \in 1 .. Len(s) + 1
    BY <1>4
  <2> QED
    BY <1>9, <2>1
<1> QED
  BY <1>12, <1>13 DEF r, x

\* The words of a stream up to the end of the message that it is in.
LEMMA WithinMessage ==
  ASSUME NEW s, NEW e, NEW b, Follows(s, e, b), NEW k \in 1 .. Len(s),
         NEW n \in 1 .. Len(Lengths), NEW i \in 1 .. Size(n),
         s[1] = <<n, i>>, i + k - 1 <= Size(n)
  PROVE  /\ \A j \in 1 .. k : s[j] = <<n, i + j - 1>>
         /\ i + k - 1 < Size(n) => WordAt(s, e, k + 1) = <<n, i + k>>
         /\ ~ (i + k - 1 < Size(n)) => WordAt(s, e, k + 1) = <<n + 1, 1>>
<1>1. Size(n) \in Nat /\ n \in Nat /\ i \in Nat /\ Len(s) \in Nat /\ k \in Nat
  BY LengthsAre DEF Follows
<1> DEFINE Bad == {j \in 1 .. k : s[j] # <<n, i + j - 1>>}
<1>2. Bad = {}
  <2> SUFFICES ASSUME Bad # {} PROVE FALSE
    OBVIOUS
  <2>1. Bad \subseteq Nat
    BY <1>1
  <2>2. PICK j \in Bad : \A l \in Bad : j <= l
    <3> HIDE DEF Bad
    <3> QED
      BY <2>1, LeastElement
  <2>3. j \in Nat /\ j \in 1 .. k /\ s[j] # <<n, i + j - 1>>
    BY <2>1, <2>2
  <2>4. j # 1
    BY <1>1, <2>3
  <2> DEFINE l == j - 1
  <2>5. l \in Nat /\ l \in 1 .. k /\ l < j /\ l \in 1 .. Len(s)
    BY <1>1, <2>3, <2>4
  <2>6. l + 1 = j /\ j <= Len(s) /\ i + l - 1 \in Nat /\ i + l - 1 < Size(n) /\ (i + l - 1) + 1 = i + j - 1
    <3>1. l + 1 = j
      BY <2>3
    <3> HIDE DEF l
    <3>2. j <= k /\ k <= Len(s) /\ j <= Len(s) /\ l >= 1
      <4> HIDE DEF Bad
      <4>1. j <= k /\ k <= Len(s)
        BY <1>1, <2>3
      <4>2. l >= 1
        BY <2>5
      <4> QED
        BY <1>1, <2>3, <4>1, <4>2
    <3> QED
      BY <1>1, <2>3, <2>5, <3>1, <3>2
  <2> HIDE DEF l
  <2>7. l \notin Bad
    <3>1. ~ (j <= l)
      BY <2>3, <2>5
    <3> HIDE DEF Bad
    <3> QED
      BY <2>2, <3>1
  <2>8. s[l] = <<n, i + l - 1>>
    BY <2>5, <2>7
  <2>9. WordAt(s, e, l + 1) = After(s[l])
    BY <2>5 DEF Follows
  <2>10. After(s[l]) = <<n, i + j - 1>>
    BY <2>6, <2>8 DEF After
  <2>11. WordAt(s, e, l + 1) = s[j]
    BY <2>6 DEF WordAt
  <2> QED
    BY <2>3, <2>9, <2>10, <2>11
<1>3. \A j \in 1 .. k : s[j] = <<n, i + j - 1>>
  BY <1>2
<1>4. WordAt(s, e, k + 1) = After(<<n, i + k - 1>>)
  <2>1. WordAt(s, e, k + 1) = After(s[k])
    BY DEF Follows
  <2>2. s[k] = <<n, i + k - 1>>
    BY <1>1, <1>3
  <2> QED
    BY <2>1, <2>2
<1>5. (i + k - 1) + 1 = i + k
  BY <1>1
<1> QED
  BY <1>3, <1>4, <1>5 DEF After

\* What the receiver has of the message that the next word, w, is of.
Reading(w) ==
  /\ nleft = 0 => buffer = <<>>
  /\ nleft > 0 =>
       /\ w[1] \in 1 .. Len(Lengths) /\ w[2] \in 3 .. Size(w[1])
       /\ nleft = Size(w[1]) - w[2] + 1
       /\ Len(buffer) = w[2] - 3
       /\ \A j \in 1 .. Len(buffer) : buffer[j] = <<w[1], j + 2>>

\* The messages before that of the next word were received, or there was an
\* error; also for that one, if its beginning was skipped.
Counted(w) ==
  /\ w[1] - 1 <= Len(received) + errors
  /\ nleft = 0 /\ w[2] > 1 => w[1] <= Len(received) + errors
  /\ \A r \in 1 .. Len(received) : NumberOf(received[r]) < w[1]

StreamInv ==
  \E e \in Pairs :
    /\ Follows(stream, e, sent + 1)
    /\ sender = "open" => e = <<sent + 1, 1>>
    /\ Reading(WordAt(stream, e, 1))
    /\ Counted(WordAt(stream, e, 1))

TcpTypeOK ==
  /\ sent \in 0 .. Len(Lengths) /\ sender \in {"open", "failed", "closed"}
  /\ nleft \in Nat /\ errors \in Nat /\ ended \in BOOLEAN
  /\ buffer \in Seq(Pairs)
  /\ received \in Seq(Seq(Pairs))
  /\ \A r \in 1 .. Len(received) : NumberOf(received[r]) \in Nat

\* The inductive invariant.  A receiver that has got 0 or lost the connection
\* does not go on, and nor does its sender.
TcpInv ==
  /\ TcpTypeOK /\ MessagesAreKept
  /\ StreamInv \/ (ended /\ sender = "closed" /\ nleft = 0)

LEMMA SendStep ==
  ASSUME TcpInv, Send
  PROVE  TcpInv'
<1> DEFINE m == sent + 1
<1>1. /\ sender = "open" /\ sent \in Nat /\ m \in 1 .. Len(Lengths) /\ sent' = m
      /\ stream' = stream \o MsgWords(m)
      /\ UNCHANGED <<sender, nleft, buffer, received, errors, ended>>
  BY LengthsAre DEF Send, TcpInv, TcpTypeOK
<1>2. PICK e \in Pairs :
        /\ Follows(stream, e, m) /\ e = <<m, 1>>
        /\ Reading(WordAt(stream, e, 1)) /\ Counted(WordAt(stream, e, 1))
  BY <1>1 DEF TcpInv, StreamInv
<1>3. MsgWords(m) = SubSeq(MsgWords(m), 1, Size(m))
  BY <1>1, LengthsAre DEF MsgWords, Size
<1>4. Size(m) \in 0 .. Size(m) /\ m + 1 \in Nat /\ m <= m + 1
  BY <1>1, LengthsAre
<1> DEFINE f == <<m + 1, 1>>
<1>6. /\ Follows(stream', f, m + 1)
      /\ WordAt(stream', f, 1) = WordAt(stream, e, 1)
  <2>1. Follows(stream, <<m, 1>>, m)
    BY <1>2
  <2>2. m \in 1 .. Len(Lengths) /\ m \in Nat /\ Size(m) \in 0 .. Size(m) /\ m + 1 \in Nat
    BY <1>1, <1>4
  <2>3. f = <<m + 1, 1>> /\ ~ (Size(m) < Size(m)) /\ m <= m + 1 /\ m + 1 <= m + 1
    BY <1>4, <2>2
  <2> HIDE DEF m, f
  <2>4. /\ Follows(stream \o SubSeq(MsgWords(m), 1, Size(m)), f, m + 1)
        /\ WordAt(stream \o SubSeq(MsgWords(m), 1, Size(m)), f, 1)
             = WordAt(stream, <<m, 1>>, 1)
    BY <2>1, <2>2, <2>3, SentFollows
  <2> QED
    BY <1>1, <1>2, <1>3, <2>4 DEF m
<1>7. StreamInv'
  BY <1>1, <1>2, <1>4, <1>6 DEF StreamInv, Reading, Counted, Pairs
<1>8. TcpTypeOK'
  BY <1>1 DEF TcpInv, TcpTypeOK
<1>9. MessagesAreKept'
  BY <1>1 DEF TcpInv, TcpTypeOK, MessagesAreKept
<1> QED
  BY <1>7, <1>8, <1>9 DEF TcpInv

LEMMA SendFailsStep ==
  ASSUME TcpInv, SendFails
  PROVE  TcpInv'
<1> DEFINE m == sent + 1
<1>1. /\ sender = "open" /\ sent \in Nat /\ m \in 1 .. Len(Lengths) /\ sender' = "failed"
      /\ UNCHANGED <<sent, nleft, buffer, received, errors, ended>>
  BY LengthsAre DEF SendFails, TcpInv, TcpTypeOK
<1>2. PICK e \in Pairs :
        /\ Follows(stream, e, m) /\ e = <<m, 1>>
        /\ Reading(WordAt(stream, e, 1)) /\ Counted(WordAt(stream, e, 1))
  BY <1>1 DEF TcpInv, StreamInv
<1>3. PICK k \in 0 .. HeaderSize + Lengths[m] - 1 : stream' = stream \o SubSeq(MsgWords(m), 1, k)
  BY DEF SendFails
<1>4. k \in 0 .. Size(m) /\ k < Size(m) /\ k + 1 \in Nat /\ m \in Nat
  <2>1. Size(m) = HeaderSize + Lengths[m]
    BY DEF Size
  <2>2. Size(m) \in Nat /\ m \in Nat /\ Lengths[m] \in Nat
    BY <1>1, LengthsAre
  <2> HIDE DEF m
  <2>3. k \in 0 .. Size(m) - 1
    BY <1>3, <2>1, <2>2 DEF HeaderSize
  <2> QED
    BY <2>2, <2>3
<1> DEFINE f == <<m, k + 1>>
<1>5. f \in Pairs /\ f[1] = m
  BY <1>4 DEF Pairs
<1>6. /\ Follows(stream', f, m)
      /\ WordAt(stream', f, 1) = WordAt(stream, e, 1)
  <2>1. Follows(stream, <<m, 1>>, m)
    BY <1>2
  <2>2. m <= m /\ f[1] <= m
    BY <1>4, <1>5
  <2> DEFINE x == SubSeq(MsgWords(m), 1, k)
  <2>3. m \in 1 .. Len(Lengths) /\ m \in Nat /\ k \in 0 .. Size(m)
    BY <1>1, <1>4
  <2>4. f = <<m, k + 1>> /\ k # Size(m)
    BY <1>4
  <2>6. x = SubSeq(MsgWords(m), 1, k)
    OBVIOUS
  <2> HIDE DEF m, f, x
  <2>5. /\ Follows(stream \o x, f, m)
        /\ WordAt(stream \o x, f, 1) = WordAt(stream, <<m, 1>>, 1)
    BY <2>1, <2>2, <2>3, <2>4, <2>6, SentFollows
  <2> QED
    BY <1>2, <1>3, <2>5, <2>6 DEF m
<1>7. StreamInv'
  BY <1>1, <1>2, <1>5, <1>6 DEF StreamInv, Reading, Counted
<1>8. TcpTypeOK'
  BY <1>1 DEF TcpInv, TcpTypeOK
<1>9. MessagesAreKept'
  BY <1>1 DEF TcpInv, MessagesAreKept
<1> QED
  BY <1>7, <1>8, <1>9 DEF TcpInv

LEMMA CloseSenderStep ==
  ASSUME TcpInv, CloseSender
  PROVE  TcpInv'
<1>1. sender' = "closed" /\ UNCHANGED <<stream, sent, nleft, buffer, received, errors, ended>>
  BY DEF CloseSender
<1>2. TcpTypeOK' /\ MessagesAreKept'
  BY <1>1 DEF TcpInv, TcpTypeOK, MessagesAreKept
<1>3. StreamInv => StreamInv'
  BY <1>1 DEF StreamInv, Reading, Counted
<1> QED
  BY <1>1, <1>2, <1>3 DEF TcpInv

\* An error keeps what was received; from then on one more may be missing.
LEMMA ErrorKeeps ==
  ASSUME TcpInv, ReturnError, ended' \in BOOLEAN
  PROVE  /\ TcpTypeOK' /\ MessagesAreKept'
         /\ nleft' = 0 /\ buffer' = <<>> /\ errors' = errors + 1
         /\ UNCHANGED <<sent, sender, received>>
<1>1. /\ nleft' = 0 /\ buffer' = <<>> /\ errors' = errors + 1
      /\ UNCHANGED <<sent, sender, received>>
  BY DEF ReturnError
<1>2. TcpTypeOK'
  BY <1>1 DEF TcpInv, TcpTypeOK
<1>3. MessagesAreKept'
  <2>1. received # <<>> => NumberOf(Last(received)) \in Nat /\ Len(received) \in Nat /\ errors \in Nat
    BY DEF TcpInv, TcpTypeOK, Last
  <2>2. received # <<>> => NumberOf(Last(received)) <= Len(received) + (errors + 1)
    BY <2>1 DEF TcpInv, MessagesAreKept
  <2> QED
    BY <1>1, <2>2 DEF TcpInv, MessagesAreKept
<1> QED
  BY <1>1, <1>2, <1>3

\* The first word of a stream of the receiver, and the ones behind it.
LEMMA NextWords ==
  ASSUME NEW e, NEW n, Follows(stream, e, n), stream # <<>>
  PROVE  /\ Len(stream) \in Nat /\ Len(stream) >= 1
         /\ stream[1] \in Pairs /\ IsWord(stream[1]) /\ WordAt(stream, e, 1) = stream[1]
         /\ WordAt(stream, e, 2) = After(stream[1])
         /\ Len(stream) >= 2 => /\ stream[2] = After(stream[1]) /\ IsWord(stream[2])
                                /\ stream[2] \in Pairs
                                /\ WordAt(stream, e, 3) = After(stream[2])
<1>1. stream \in Seq(Pairs) /\ Len(stream) \in Nat /\ Len(stream) >= 1
  BY DEF Follows
<1>2. /\ 1 \in 1 .. Len(stream) /\ 1 <= Len(stream)
      /\ Len(stream) >= 2 => 2 \in 1 .. Len(stream) /\ 2 <= Len(stream)
  BY <1>1
<1>3. 1 + 1 = 2 /\ 2 + 1 = 3
  OBVIOUS
<1>4. \A j \in 1 .. Len(stream) : stream[j] \in Pairs
  BY <1>1
<1>5. \A j \in 1 .. Len(stream) : IsWord(stream[j]) /\ WordAt(stream, e, j + 1) = After(stream[j])
  BY DEF Follows
<1>6. WordAt(stream, e, 1) = stream[1] /\ (Len(stream) >= 2 => WordAt(stream, e, 2) = stream[2])
  BY <1>2 DEF WordAt
<1> QED
  BY <1>1, <1>2, <1>3, <1>4, <1>5, <1>6

\* Of the two words of a header the receiver skips some in an error.
LEMMA SkipStep ==
  ASSUME TcpInv, MayCall, NEW k \in 1 .. 2, k <= Len(stream), Take(k), ReturnError,
         UNCHANGED ended
  PROVE  TcpInv'
<1>1. /\ TcpTypeOK' /\ MessagesAreKept'
      /\ nleft' = 0 /\ buffer' = <<>> /\ errors' = errors + 1
      /\ UNCHANGED <<sent, sender, received>>
  BY ErrorKeeps DEF TcpInv, TcpTypeOK
<1>2. /\ nleft = 0 /\ ~ ended /\ sent + 1 \in Nat /\ stream' = SubSeq(stream, k + 1, Len(stream))
      /\ Len(received) \in Nat /\ errors \in Nat
      /\ \A r \in 1 .. Len(received) : NumberOf(received[r]) \in Nat
  BY DEF MayCall, TcpInv, TcpTypeOK, Take
<1>3. PICK e \in Pairs :
        /\ Follows(stream, e, sent + 1)
        /\ sender = "open" => e = <<sent + 1, 1>>
        /\ Counted(WordAt(stream, e, 1))
  BY <1>2 DEF TcpInv, StreamInv
<1>4. k \in 0 .. Len(stream) /\ stream # <<>> /\ Len(stream) \in Nat
  BY <1>3 DEF Follows
<1>5. /\ Follows(stream', e, sent + 1)
      /\ WordAt(stream', e, 1) = WordAt(stream, e, k + 1)
  BY <1>2, <1>3, <1>4, TakenFollows
<1> DEFINE u == stream[1]
<1> DEFINE w == WordAt(stream, e, k + 1)
<1>6. /\ u \in Pairs /\ IsWord(u) /\ Counted(u)
      /\ k = 1 => w = After(u)
      /\ k = 2 => IsWord(After(u)) /\ w = After(After(u))
  <2>1. /\ u \in Pairs /\ IsWord(u) /\ WordAt(stream, e, 1) = u
        /\ WordAt(stream, e, 2) = After(u)
        /\ Len(stream) >= 2 => /\ stream[2] = After(u) /\ IsWord(stream[2])
                               /\ WordAt(stream, e, 3) = After(stream[2])
    BY <1>3, <1>4, NextWords
  <2>2. k = 2 => Len(stream) >= 2
    BY <1>4
  <2> QED
    BY <1>3, <2>1, <2>2
<1> HIDE DEF u, w
<1>7. /\ u[1] \in 1 .. Len(Lengths) /\ u[2] \in 1 .. Size(u[1]) /\ u[1] \in Nat /\ u[2] \in Nat
      /\ Size(u[1]) \in Nat /\ Size(u[1]) >= 3
  BY <1>6, LengthsAre DEF IsWord
<1>8. \/ w[1] = u[1]
      \/ w[1] = u[1] + 1 /\ w[2] = 1
      \/ w[1] = u[1] + 1 /\ u[2] > 1
  <2>1. \/ After(u) = <<u[1], u[2] + 1>> /\ u[2] < Size(u[1])
        \/ After(u) = <<u[1] + 1, 1>> /\ u[2] = Size(u[1])
    BY <1>7 DEF After
  <2>2. CASE k = 1
    BY <1>6, <2>1, <2>2
  <2>3. CASE k = 2 /\ After(u) = <<u[1], u[2] + 1>>
    <3>1. w = After(<<u[1], u[2] + 1>>)
      BY <1>6, <2>3
    <3> QED
      BY <3>1 DEF After
  <2>4. CASE k = 2 /\ After(u) = <<u[1] + 1, 1>> /\ u[2] = Size(u[1])
    <3>1. w = After(<<u[1] + 1, 1>>) /\ IsWord(<<u[1] + 1, 1>>)
      BY <1>6, <2>4
    <3>2. Size(u[1] + 1) \in Nat /\ Size(u[1] + 1) >= 3
      BY <3>1, LengthsAre DEF IsWord
    <3>3. w[1] = u[1] + 1
      BY <3>1, <3>2 DEF After
    <3> QED
      BY <1>7, <2>4, <3>3
  <2> QED
    BY <2>1, <2>2, <2>3, <2>4
<1>9. /\ u[1] - 1 <= Len(received) + errors
      /\ u[2] > 1 => u[1] <= Len(received) + errors
      /\ \A r \in 1 .. Len(received) : NumberOf(received[r]) < u[1]
  BY <1>2, <1>6 DEF Counted
<1>10. /\ w[1] - 1 <= Len(received) + (errors + 1)
       /\ w[2] > 1 => w[1] <= Len(received) + (errors + 1)
       /\ \A r \in 1 .. Len(received) : NumberOf(received[r]) < w[1]
  <2>1. w[1] = u[1] \/ w[1] = u[1] + 1
    BY <1>8
  <2>2. u[1] - 1 <= Len(received) + errors => u[1] <= Len(received) + (errors + 1)
    BY <1>2, <1>7
  <2>3. w[1] - 1 <= Len(received) + (errors + 1)
    BY <1>2, <1>7, <1>9, <2>1, <2>2
  <2>4. w[2] > 1 => w[1] <= Len(received) + (errors + 1)
    <3>1. CASE w[1] = u[1]
      BY <1>9, <2>2, <3>1
    <3>2. CASE w[1] = u[1] + 1 /\ w[2] = 1
      BY <3>2
    <3>3. CASE w[1] = u[1] + 1 /\ u[2] > 1
      BY <1>2, <1>7, <1>9, <3>3
    <3> QED
      BY <1>8, <3>1, <3>2, <3>3
  <2>5. \A c \in Nat : c < u[1] => c < w[1]
    BY <1>7, <2>1
  <2> QED
    BY <1>2, <1>9, <2>3, <2>4, <2>5
<1>11. /\ Follows(stream', e, sent' + 1)
       /\ sender' = "open" => e = <<sent' + 1, 1>>
       /\ WordAt(stream', e, 1) = w
  BY <1>1, <1>3, <1>5 DEF w
<1>12. StreamInv'
  BY <1>1, <1>10, <1>11 DEF StreamInv, Reading, Counted
<1> QED
  BY <1>1, <1>12 DEF TcpInv

LEMMA HeaderStep ==
  ASSUME TcpInv, NEW n \in 1 .. Len(Lengths), RecvHeader(n)
  PROVE  TcpInv'
<1>1. /\ nleft = 0 /\ ~ ended /\ nleft' = Lengths[n]
      /\ stream' = SubSeq(stream, 2 + 1, Len(stream)) /\ Len(stream) >= 2
      /\ SubSeq(stream, 1, 2) = SubSeq(MsgWords(n), 1, 2)
      /\ UNCHANGED <<sent, sender, buffer, received, errors, ended>>
  BY DEF RecvHeader, MayCall, Take, HeaderOf, IsHeaderOf, HeaderSize
<1>2. PICK e \in Pairs :
        /\ Follows(stream, e, sent + 1)
        /\ sender = "open" => e = <<sent + 1, 1>>
        /\ Reading(WordAt(stream, e, 1)) /\ Counted(WordAt(stream, e, 1))
  BY <1>1 DEF TcpInv, StreamInv
<1>3. stream # <<>> /\ Len(stream) \in Nat /\ stream \in Seq(Pairs) /\ 2 \in 0 .. Len(stream)
  BY <1>1, <1>2 DEF Follows
<1>4. /\ Follows(stream', e, sent + 1)
      /\ WordAt(stream', e, 1) = WordAt(stream, e, 2 + 1)
  <2>1. sent + 1 \in Nat
    BY DEF TcpInv, TcpTypeOK
  <2> QED
    BY <1>1, <1>2, <1>3, <2>1, TakenFollows
<1>5. Size(n) \in Nat /\ Size(n) >= 3 /\ n \in Nat /\ Lengths[n] \in Nat \ {0} /\ Size(n) = 2 + Lengths[n]
  BY LengthsAre DEF Size, HeaderSize
<1>6. stream[1] = <<n, 1>> /\ stream[2] = <<n, 2>>
  <2>1. MsgWords(n) = [i \in 1 .. Size(n) |-> <<n, i>>]
    BY DEF MsgWords, Size
  <2>2. \A i \in 1 .. Size(n) : <<n, i>> \in Pairs
    BY <1>5 DEF Pairs
  <2>3. MsgWords(n) \in [1 .. Size(n) -> Pairs]
    BY <2>1, <2>2
  <2>4. \A N \in Nat : \A f \in [1 .. N -> Pairs] : f \in Seq(Pairs) /\ Len(f) = N
    OBVIOUS
  <2>5. MsgWords(n) \in Seq(Pairs) /\ Len(MsgWords(n)) = Size(n)
    BY <1>5, <2>3, <2>4
  <2>6. MsgWords(n)[1] = <<n, 1>> /\ MsgWords(n)[2] = <<n, 2>>
    BY <1>5, <2>1
  <2>7. \A s \in Seq(Pairs) : Len(s) >= 2 => SubSeq(s, 1, 2)[1] = s[1] /\ SubSeq(s, 1, 2)[2] = s[2]
    OBVIOUS
  <2>8. /\ SubSeq(stream, 1, 2)[1] = stream[1] /\ SubSeq(stream, 1, 2)[2] = stream[2]
        /\ SubSeq(MsgWords(n), 1, 2)[1] = MsgWords(n)[1]
        /\ SubSeq(MsgWords(n), 1, 2)[2] = MsgWords(n)[2]
    <3>1. Len(MsgWords(n)) >= 2
      BY <1>5, <2>5
    <3> QED
      BY <1>1, <1>3, <2>5, <2>7, <3>1
  <2> QED
    BY <1>1, <2>6, <2>8
<1>7. WordAt(stream, e, 1) = <<n, 1>> /\ WordAt(stream, e, 3) = <<n, 3>>
  <2>1. WordAt(stream, e, 1) = stream[1] /\ WordAt(stream, e, 3) = After(stream[2])
    BY <1>1, <1>2, <1>3, NextWords
  <2>2. After(<<n, 2>>) = <<n, 3>>
    BY <1>5 DEF After
  <2> QED
    BY <1>6, <2>1, <2>2
<1>8. buffer = <<>>
  BY <1>1, <1>2 DEF Reading
<1>9. Reading(<<n, 3>>)'
  <2>1. nleft' > 0 /\ nleft' = Size(n) - 3 + 1 /\ 3 \in 3 .. Size(n)
    BY <1>1, <1>5
  <2>2. buffer' = <<>> /\ Len(<<>>) = 0 /\ 3 - 3 = 0
    BY <1>1, <1>8
  <2> QED
    BY <2>1, <2>2 DEF Reading
<1>10. Counted(<<n, 3>>)'
  <2>1. nleft' # 0
    BY <1>1, <1>5
  <2> QED
    BY <1>1, <1>2, <1>7, <2>1 DEF Counted
<1>11. WordAt(stream', e, 1) = <<n, 3>>
  BY <1>4, <1>7
<1>12. StreamInv'
  BY <1>1, <1>2, <1>4, <1>9, <1>10, <1>11 DEF StreamInv
<1>13. TcpTypeOK'
  BY <1>1, <1>5 DEF TcpInv, TcpTypeOK
<1>14. MessagesAreKept'
  BY <1>1 DEF TcpInv, MessagesAreKept
<1> QED
  BY <1>12, <1>13, <1>14 DEF TcpInv

\* A sequence is the payload of message n if its words are.
LEMMA PayloadIs ==
  ASSUME NEW n \in 1 .. Len(Lengths), NEW words \in Seq(Pairs), Len(words) = Size(n) - 2,
         \A j \in 1 .. Len(words) : words[j] = <<n, j + 2>>
  PROVE  words = Payload(n) /\ NumberOf(words) = n
<1>1. Size(n) \in Nat /\ Size(n) >= 3 /\ n \in Nat /\ Len(words) \in Nat
  BY LengthsAre
<1> DEFINE m == MsgWords(n)
<1>2. m = [i \in 1 .. Size(n) |-> <<n, i>>]
  BY DEF MsgWords, Size
<1>3. m \in Seq(Pairs) /\ Len(m) = Size(n)
  <2>1. \A i \in 1 .. Size(n) : <<n, i>> \in Pairs
    BY <1>1 DEF Pairs
  <2>2. m \in [1 .. Size(n) -> Pairs]
    BY <1>2, <2>1
  <2>3. \A N \in Nat : \A f \in [1 .. N -> Pairs] : f \in Seq(Pairs) /\ Len(f) = N
    OBVIOUS
  <2> HIDE DEF m
  <2> QED
    BY <1>1, <2>2, <2>3
<1>4. Payload(n) = SubSeq(m, 3, Size(n))
  BY DEF Payload, Size, HeaderSize
<1>5. \A i \in 1 .. Size(n) : m[i] = <<n, i>>
  BY <1>2
<1> HIDE DEF m
<1>6. /\ Payload(n) \in Seq(Pairs) /\ Len(Payload(n)) = Size(n) - 2
      /\ \A j \in 1 .. Size(n) - 2 : Payload(n)[j] = m[j + 2]
  BY <1>1, <1>3, <1>4
<1>7. \A j \in 1 .. Size(n) - 2 : words[j] = Payload(n)[j]
  <2> SUFFICES ASSUME NEW j \in 1 .. Size(n) - 2 PROVE words[j] = Payload(n)[j]
    OBVIOUS
  <2>1. j + 2 \in 1 .. Size(n) /\ j \in 1 .. Len(words)
    BY <1>1
  <2> QED
    BY <1>5, <1>6, <2>1
<1>8. words = Payload(n)
  <2>1. \A s, t \in Seq(Pairs) :
          Len(s) = Len(t) /\ (\A j \in 1 .. Len(s) : s[j] = t[j]) => s = t
    OBVIOUS
  <2> QED
    BY <1>6, <1>7, <2>1
<1>9. 1 \in 1 .. Len(words)
  BY <1>1
<1> QED
  BY <1>8, <1>9 DEF NumberOf

LEMMA PayloadStep ==
  ASSUME TcpInv, NEW k \in 1 .. nleft, RecvPayload(k)
  PROVE  TcpInv'
<1> DEFINE words == buffer \o SubSeq(stream, 1, k)
<1>1. /\ k \in Nat /\ k >= 1 /\ k <= nleft /\ k <= Len(stream) /\ nleft \in Nat /\ nleft # 0
      /\ nleft' = nleft - k /\ stream' = SubSeq(stream, k + 1, Len(stream))
      /\ k = nleft => received' = Append(received, words) /\ buffer' = <<>>
      /\ k # nleft => received' = received /\ buffer' = words
      /\ UNCHANGED <<sent, sender, errors, ended>>
      /\ sent \in Nat /\ errors \in Nat /\ buffer \in Seq(Pairs)
      /\ received \in Seq(Seq(Pairs)) /\ Len(received) \in Nat
  BY DEF RecvPayload, Take, TcpInv, TcpTypeOK
<1>2. PICK e \in Pairs :
        /\ Follows(stream, e, sent + 1)
        /\ sender = "open" => e = <<sent + 1, 1>>
        /\ Reading(WordAt(stream, e, 1)) /\ Counted(WordAt(stream, e, 1))
  BY <1>1 DEF TcpInv, StreamInv
<1>3. /\ stream \in Seq(Pairs) /\ Len(stream) \in Nat /\ stream # <<>>
      /\ k \in 0 .. Len(stream) /\ k \in 1 .. Len(stream)
  BY <1>1, <1>2 DEF Follows
<1>4. /\ Follows(stream', e, sent + 1)
      /\ WordAt(stream', e, 1) = WordAt(stream, e, k + 1)
  <2>1. sent + 1 \in Nat
    BY <1>1
  <2> QED
    BY <1>1, <1>2, <1>3, <2>1, TakenFollows
<1>5. stream[1] \in Pairs /\ WordAt(stream, e, 1) = stream[1]
  BY <1>2, <1>3, NextWords
<1>6. PICK n \in Nat, i \in Nat : stream[1] = <<n, i>>
  BY <1>5 DEF Pairs
<1>7. /\ n \in 1 .. Len(Lengths) /\ i \in 3 .. Size(n)
      /\ nleft = Size(n) - i + 1 /\ Len(buffer) = i - 3
      /\ \A j \in 1 .. Len(buffer) : buffer[j] = <<n, j + 2>>
  <2>1. nleft > 0
    BY <1>1
  <2>2. Reading(<<n, i>>)
    BY <1>2, <1>5, <1>6
  <2> QED
    BY <2>1, <2>2 DEF Reading
<1>8. /\ n \in Nat /\ i \in Nat /\ i >= 3 /\ Size(n) \in Nat /\ i \in 1 .. Size(n)
      /\ i + k - 1 <= Size(n)
  <2>1. n \in Nat /\ Size(n) \in Nat /\ i \in 3 .. Size(n)
    BY <1>7, LengthsAre
  <2>2. i >= 3 /\ i \in 1 .. Size(n)
    BY <2>1
  <2>3. \A l, c \in Nat : l = Size(n) - i + 1 /\ c <= l => i + c - 1 <= Size(n)
    BY <2>1
  <2> QED
    BY <1>1, <1>7, <2>1, <2>2, <2>3
<1>9. /\ \A j \in 1 .. k : stream[j] = <<n, i + j - 1>>
      /\ i + k - 1 < Size(n) => WordAt(stream, e, k + 1) = <<n, i + k>>
      /\ ~ (i + k - 1 < Size(n)) => WordAt(stream, e, k + 1) = <<n + 1, 1>>
  <2>1. Follows(stream, e, sent + 1) /\ k \in 1 .. Len(stream) /\ n \in 1 .. Len(Lengths)
    BY <1>2, <1>3, <1>7
  <2>2. i \in 1 .. Size(n) /\ stream[1] = <<n, i>> /\ i + k - 1 <= Size(n)
    BY <1>6, <1>8
  <2> QED
    BY <2>1, <2>2, WithinMessage
<1>10. /\ words \in Seq(Pairs) /\ Len(words) = i - 3 + k
       /\ \A j \in 1 .. Len(words) : words[j] = <<n, j + 2>>
  <2>1. /\ SubSeq(stream, 1, k) \in Seq(Pairs) /\ Len(SubSeq(stream, 1, k)) = k
        /\ \A j \in 1 .. k : SubSeq(stream, 1, k)[j] = stream[j]
    BY <1>3
  <2> DEFINE x == SubSeq(stream, 1, k)
  <2> HIDE DEF x
  <2>2. /\ words \in Seq(Pairs) /\ Len(words) = Len(buffer) + k
        /\ \A j \in 1 .. Len(buffer) : words[j] = buffer[j]
        /\ \A j \in 1 .. k : words[Len(buffer) + j] = stream[j]
    BY <1>1, <2>1
  <2> HIDE DEF words
  <2> SUFFICES ASSUME NEW j \in 1 .. Len(words) PROVE words[j] = <<n, j + 2>>
    BY <1>7, <2>2
  <2>3. CASE j <= Len(buffer)
    <3>1. j \in 1 .. Len(buffer)
      BY <1>1, <2>2, <2>3
    <3> QED
      BY <1>7, <2>2, <3>1
  <2>4. CASE ~ (j <= Len(buffer))
    <3> DEFINE l == j - Len(buffer)
    <3>1. l \in 1 .. k /\ Len(buffer) + l = j /\ i + l - 1 = j + 2
      BY <1>1, <1>7, <1>8, <2>2, <2>4
    <3> HIDE DEF l
    <3> QED
      BY <1>9, <2>2, <3>1
  <2> QED
    BY <2>3, <2>4
<1> HIDE DEF words
<1>11. CASE k # nleft
  <2>1. /\ i + k - 1 < Size(n) /\ i + k \in 3 .. Size(n) /\ nleft - k > 0 /\ nleft - k \in Nat
        /\ nleft - k = Size(n) - (i + k) + 1 /\ i - 3 + k = (i + k) - 3
    <3>1. \A l, c \in Nat :
            /\ c >= 1 /\ c <= l /\ c # l /\ l = Size(n) - i + 1
            => /\ i + c - 1 < Size(n) /\ i + c \in 3 .. Size(n) /\ l - c > 0 /\ l - c \in Nat
               /\ l - c = Size(n) - (i + c) + 1 /\ i - 3 + c = (i + c) - 3
      BY <1>8
    <3> QED
      BY <1>1, <1>7, <1>11, <3>1
  <2>2. /\ nleft' = nleft - k /\ buffer' = words
        /\ UNCHANGED <<sent, sender, errors, ended, received>>
    BY <1>1, <1>11
  <2>3. WordAt(stream', e, 1) = <<n, i + k>>
    BY <1>4, <1>9, <2>1
  <2>4. Reading(<<n, i + k>>)'
    <3>1. nleft' > 0 /\ nleft' = Size(n) - (i + k) + 1
      BY <2>1, <2>2
    <3>2. /\ Len(buffer') = (i + k) - 3
          /\ \A j \in 1 .. Len(buffer') : buffer'[j] = <<n, j + 2>>
      BY <1>10, <2>1, <2>2
    <3>3. n \in 1 .. Len(Lengths) /\ i + k \in 3 .. Size(n)
      BY <1>7, <2>1
    <3> QED
      BY <3>1, <3>2, <3>3 DEF Reading
  <2>5. Counted(<<n, i + k>>)'
    <3>1. nleft' # 0
      BY <2>1, <2>2
    <3> QED
      BY <1>2, <1>5, <1>6, <2>2, <3>1 DEF Counted
  <2>6. StreamInv'
    BY <1>2, <1>4, <2>2, <2>3, <2>4, <2>5 DEF StreamInv
  <2>7. TcpTypeOK'
    BY <1>10, <2>1, <2>2 DEF TcpInv, TcpTypeOK
  <2>8. MessagesAreKept'
    BY <2>2 DEF TcpInv, MessagesAreKept
  <2> QED
    BY <2>6, <2>7, <2>8 DEF TcpInv
<1>12. CASE k = nleft
  <2>1. ~ (i + k - 1 < Size(n)) /\ i - 3 + k = Size(n) - 2 /\ nleft - k = 0
    <3>1. \A l \in Nat :
            l = Size(n) - i + 1 => /\ ~ (i + l - 1 < Size(n)) /\ i - 3 + l = Size(n) - 2
                                   /\ l - l = 0
      BY <1>8
    <3> QED
      BY <1>1, <1>7, <1>12, <3>1
  <2>2. /\ nleft' = 0 /\ buffer' = <<>> /\ received' = Append(received, words)
        /\ UNCHANGED <<sent, sender, errors, ended>>
    BY <1>1, <1>12, <2>1
  <2>3. WordAt(stream', e, 1) = <<n + 1, 1>>
    BY <1>4, <1>9, <2>1
  <2>4. words = Payload(n) /\ NumberOf(words) = n
    BY <1>7, <1>10, <2>1, PayloadIs
  <2>5. n <= sent
    <3>1. Len(stream') \in Nat /\ 1 \in 1 .. Len(stream') + 1
      BY <1>4 DEF Follows
    <3>2. WordAt(stream', e, 1)[1] \in 1 .. sent + 1
      BY <1>4, <3>1 DEF Follows
    <3>3. n + 1 <= sent + 1
      BY <1>1, <2>3, <3>2
    <3> QED
      BY <1>1, <1>8, <3>3
  <2>6. /\ n - 1 <= Len(received) + errors
        /\ \A r \in 1 .. Len(received) : NumberOf(received[r]) < n
        /\ \A r \in 1 .. Len(received) : NumberOf(received[r]) \in Nat
    <3>1. Counted(<<n, i>>)
      BY <1>2, <1>5, <1>6
    <3>2. \A r \in 1 .. Len(received) : NumberOf(received[r]) \in Nat
      BY DEF TcpInv, TcpTypeOK
    <3> QED
      BY <3>1, <3>2 DEF Counted
  <2>7. /\ received' \in Seq(Seq(Pairs)) /\ Len(received') = Len(received) + 1
        /\ \A r \in 1 .. Len(received) : received'[r] = received[r]
        /\ received'[Len(received) + 1] = words
    BY <1>1, <1>10, <2>2
  <2>8. \A r \in 1 .. Len(received) + 1 : r \in 1 .. Len(received) \/ r = Len(received) + 1
    BY <1>1
  <2>9. n <= Len(received) + 1 + errors
    BY <1>1, <1>8, <2>6
  <2>10. Reading(<<n + 1, 1>>)'
    BY <2>2 DEF Reading
  <2>11. Counted(<<n + 1, 1>>)'
    <3>1. (n + 1) - 1 <= (Len(received) + 1) + errors
      BY <1>1, <1>8, <2>9
    <3>2. \A c \in Nat : c < n => c < n + 1
      BY <1>8
    <3>3. \A r \in 1 .. Len(received) + 1 : NumberOf(received'[r]) < n + 1
      <4>1. \A r \in 1 .. Len(received) : NumberOf(received'[r]) < n + 1
        BY <2>6, <2>7, <3>2
      <4>2. NumberOf(received'[Len(received) + 1]) < n + 1
        BY <1>8, <2>4, <2>7
      <4> QED
        BY <2>8, <4>1, <4>2
    <3>4. ~ (1 > 1)
      OBVIOUS
    <3> QED
      BY <2>2, <2>7, <3>1, <3>3, <3>4 DEF Counted, NumberOf
  <2>12. StreamInv'
    BY <1>2, <1>4, <2>2, <2>3, <2>10, <2>11 DEF StreamInv
  <2>13. TcpTypeOK'
    <3>1. \A r \in 1 .. Len(received) + 1 : NumberOf(received'[r]) \in Nat
      BY <1>8, <2>4, <2>6, <2>7, <2>8
    <3>2. nleft' \in Nat /\ buffer' \in Seq(Pairs)
      <4>1. <<>> \in Seq(Pairs) /\ 0 \in Nat
        OBVIOUS
      <4> QED
        BY <2>2, <4>1
    <3>3. \A r \in 1 .. Len(received') : NumberOf(received'[r]) \in Nat
      BY <2>7, <3>1
    <3>4. sent' = sent /\ sender' = sender /\ errors' = errors /\ ended' = ended
      BY <2>2
    <3>5. /\ sent \in 0 .. Len(Lengths) /\ sender \in {"open", "failed", "closed"}
          /\ errors \in Nat /\ ended \in BOOLEAN
      BY DEF TcpInv, TcpTypeOK
    <3> QED
      BY <2>7, <3>2, <3>3, <3>4, <3>5 DEF TcpTypeOK, NumberOf
  <2>14. MessagesAreKept'
    <3>1. ASSUME NEW r \in 1 .. Len(received')
          PROVE  /\ NumberOf(received'[r]) <= sent
                 /\ received'[r] = Payload(NumberOf(received'[r]))
                 /\ r > 1 => NumberOf(received'[r - 1]) < NumberOf(received'[r])
      <4>0. r \in Nat /\ r \in 1 .. Len(received) + 1
        BY <1>1, <2>7
      <4>1. CASE r \in 1 .. Len(received)
        <5>1. r > 1 => r - 1 \in 1 .. Len(received)
          BY <1>1, <4>1
        <5>2. received'[r] = received[r] /\ (r > 1 => received'[r - 1] = received[r - 1])
          BY <2>7, <4>1, <5>1
        <5> QED
          BY <4>1, <5>2 DEF TcpInv, MessagesAreKept
      <4>2. CASE r = Len(received) + 1
        <5>1. r > 1 => r - 1 \in 1 .. Len(received)
          BY <1>1, <4>2
        <5>2. received'[r] = words /\ (r > 1 => received'[r - 1] = received[r - 1])
          BY <2>7, <4>2, <5>1
        <5> QED
          BY <2>4, <2>5, <2>6, <5>1, <5>2
      <4> QED
        BY <2>8, <4>0, <4>1, <4>2
    <3>2. received' # <<>> => NumberOf(Last(received')) <= Len(received') + errors
      <4>1. Last(received') = words
        BY <2>7 DEF Last
      <4> QED
        BY <2>4, <2>7, <2>9, <4>1
    <3>3. /\ \A r \in 1 .. Len(received') :
               /\ NumberOf(received'[r]) <= sent'
               /\ received'[r] = Payload(NumberOf(received'[r]))
               /\ r > 1 => NumberOf(received'[r - 1]) < NumberOf(received'[r])
          /\ received' # <<>> => NumberOf(Last(received')) <= Len(received') + errors'
      BY <2>2, <3>1, <3>2
    <3> QED
      BY <3>3 DEF MessagesAreKept, NumberOf, Payload, MsgWords, Last
  <2> QED
    BY <2>12, <2>13, <2>14 DEF TcpInv
<1> QED
  BY <1>11, <1>12

LEMMA EndStep ==
  ASSUME TcpInv, RecvEnd \/ RecvFails
  PROVE  TcpInv'
<1>1. CASE RecvEnd
  <2>1. /\ ended' = TRUE /\ nleft' = 0 /\ buffer' = <<>> /\ sender = "closed"
        /\ UNCHANGED <<stream, sent, sender, received, errors>>
    BY <1>1 DEF RecvEnd, AtEnd
  <2>2. <<>> \in Seq(Pairs)
    OBVIOUS
  <2>3. TcpTypeOK' /\ MessagesAreKept'
    BY <2>1, <2>2 DEF TcpInv, TcpTypeOK, MessagesAreKept
  <2> QED
    BY <2>1, <2>3 DEF TcpInv
<1>2. CASE RecvFails
  <2>1. ended' = TRUE /\ sender = "closed" /\ ReturnError
    BY <1>2 DEF RecvFails
  <2>2. /\ TcpTypeOK' /\ MessagesAreKept' /\ nleft' = 0 /\ sender' = sender
    BY <2>1, ErrorKeeps
  <2> QED
    BY <2>1, <2>2 DEF TcpInv
<1> QED
  BY <1>1, <1>2

\* ipcmsg_tcp_send, ipcmsg_tcp_recv: what a call returns is a whole message that
\* was sent, in the order of sending, and none is missing without an error, also
\* after a send that broke off and when the receiver calls again after an error.
THEOREM MessagesKept == TcpSpec => []MessagesAreKept
<1>1. TcpInit => TcpInv
  <2> SUFFICES ASSUME TcpInit PROVE TcpInv
    OBVIOUS
  <2> DEFINE e == <<1, 1>>
  <2>1. /\ stream = <<>> /\ sent = 0 /\ sender = "open" /\ nleft = 0 /\ buffer = <<>>
        /\ received = <<>> /\ errors = 0 /\ ended = FALSE
    BY DEF TcpInit
  <2>2. /\ <<>> \in Seq(Pairs) /\ <<>> \in Seq(Seq(Pairs)) /\ Len(<<>>) = 0
        /\ 1 .. 0 = {} /\ e \in Pairs
    BY DEF Pairs
  <2>3. WordAt(<<>>, e, 1) = e
    BY <2>2 DEF WordAt
  <2>4. Follows(<<>>, e, 1)
    <3>1. \A j \in 1 .. 0 + 1 : j = 1
      OBVIOUS
    <3>2. e[1] \in 1 .. 1 /\ e[2] >= 1
      OBVIOUS
    <3> QED
      BY <2>2, <2>3, <3>1, <3>2 DEF Follows
  <2>5. Reading(e) /\ Counted(e)
    BY <2>1, <2>2 DEF Reading, Counted
  <2>6. StreamInv
    <3>1. sent + 1 = 1
      BY <2>1
    <3> HIDE DEF e
    <3>2. Follows(stream, e, sent + 1) /\ Reading(WordAt(stream, e, 1)) /\ Counted(WordAt(stream, e, 1))
      BY <2>1, <2>3, <2>4, <2>5, <3>1
    <3>3. e = <<sent + 1, 1>>
      BY <3>1 DEF e
    <3> QED
      BY <2>2, <3>2, <3>3 DEF StreamInv
  <2>7. TcpTypeOK /\ MessagesAreKept
    <3>1. Len(received) = 0 /\ 1 .. Len(received) = {} /\ ~ (received # <<>>)
      BY <2>1, <2>2
    <3>2. MessagesAreKept
      BY <3>1 DEF MessagesAreKept
    <3>3. 0 \in 0 .. Len(Lengths) /\ 0 \in Nat
      BY LengthsAre
    <3>4. TcpTypeOK
      <4>1. /\ sent \in 0 .. Len(Lengths) /\ nleft \in Nat /\ errors \in Nat
            /\ buffer \in Seq(Pairs) /\ received \in Seq(Seq(Pairs))
        BY <2>1, <2>2, <3>3
      <4> QED
        BY <2>1, <3>1, <4>1 DEF TcpTypeOK
    <3> QED
      BY <3>2, <3>4
  <2> QED
    BY <2>6, <2>7 DEF TcpInv
<1>2. TcpInv /\ [TcpNext]_tcpVars => TcpInv'
  <2> SUFFICES ASSUME TcpInv, [TcpNext]_tcpVars PROVE TcpInv'
    OBVIOUS
  <2>1. CASE Send
    BY <2>1, SendStep
  <2>2. CASE SendFails
    BY <2>2, SendFailsStep
  <2>3. CASE CloseSender
    BY <2>3, CloseSenderStep
  <2>4. ASSUME NEW n \in 1 .. Len(Lengths), RecvHeader(n) PROVE TcpInv'
    BY <2>4, HeaderStep
  <2>5. ASSUME NEW n \in 1 .. Len(Lengths), RecvTooLong(n) PROVE TcpInv'
    <3>1. MayCall /\ 2 <= Len(stream) /\ Take(2) /\ ReturnError /\ UNCHANGED ended
      <4>1. Len(stream) >= HeaderSize
        BY <2>5 DEF RecvTooLong, HeaderOf
      <4>2. Len(stream) >= 2 => 2 <= Len(stream)
        OBVIOUS
      <4> QED
        BY <2>5, <4>1, <4>2 DEF RecvTooLong, HeaderSize
    <3>2. 2 \in 1 .. 2
      OBVIOUS
    <3> QED
      BY <3>1, <3>2, SkipStep
  <2>6. CASE RecvPartOfHeader
    <3>1. PICK k \in 1 .. HeaderSize - 1 : k <= Len(stream) /\ Take(k)
      BY <2>6 DEF RecvPartOfHeader
    <3>2. k \in 1 .. 2
      BY DEF HeaderSize
    <3>3. MayCall /\ ReturnError /\ UNCHANGED ended
      BY <2>6 DEF RecvPartOfHeader
    <3> QED
      BY <3>1, <3>2, <3>3, SkipStep
  <2>7. CASE RecvNoHeader
    <3>1. MayCall /\ 2 <= Len(stream) /\ Take(2) /\ ReturnError /\ UNCHANGED ended
      <4>1. Len(stream) >= 2 => 2 <= Len(stream)
        OBVIOUS
      <4> QED
        BY <2>7, <4>1 DEF RecvNoHeader, HeaderSize
    <3>2. 2 \in 1 .. 2
      OBVIOUS
    <3> QED
      BY <3>1, <3>2, SkipStep
  <2>8. ASSUME NEW k \in 1 .. nleft, RecvPayload(k) PROVE TcpInv'
    BY <2>8, PayloadStep
  <2>9. CASE RecvEnd \/ RecvFails
    BY <2>9, EndStep
  <2>10. CASE UNCHANGED tcpVars
    BY <2>10 DEF tcpVars, TcpInv, TcpTypeOK, MessagesAreKept, StreamInv, Reading, Counted
  <2> QED
    BY <2>1, <2>2, <2>3, <2>4, <2>5, <2>6, <2>7, <2>8, <2>9, <2>10 DEF TcpNext
<1>3. TcpInv => MessagesAreKept
  BY DEF TcpInv
<1> QED
  BY <1>1, <1>2, <1>3, PTL DEF TcpSpec

-----------------------------------------------------------------------------
(* xipcmsg.c: messages over UDP *)

\* One client sends.  The datagrams of two would come between each other's, and
\* none says whose or which part it is.
OneClient == \A c, d \in Clients : c = d

\* A client has sent the header of a message and is about to send the data.
HeaderSent == \E c \in Clients : sending[c] # NoOne

\* How many datagrams were sent, and how many the server has taken.
SentParts == 2 * Len(order) - (IF HeaderSent THEN 1 ELSE 0)
TakenParts == 2 * Len(served) + (IF caddr = NoOne THEN 0 ELSE 1)

\* Of every message in the order of sending, first the header, then the data.
IsNth(d, p, messages) ==
  \E i \in 1 .. Len(messages) :
    /\ d.msg = messages[i]
    /\ \/ p = 2 * i - 1 /\ d.part = "header"
       \/ p = 2 * i /\ d.part = "data"

ServedItems == [from : Clients, datagram : Datagrams, length : Nat]

UdpTypes ==
  /\ socket \in Seq(Datagrams) /\ order \in Seq(Messages)
  /\ sending \in [Clients -> Messages \cup {NoOne}]
  /\ caddr \in Clients \cup {NoOne} /\ wanted \in Nat
  /\ served \in Seq(ServedItems)

\* The socket has the datagrams that were sent and not taken, in their order.
InStep ==
  /\ Len(socket) = SentParts - TakenParts
  /\ \A j \in 1 .. Len(socket) : IsNth(socket[j], TakenParts + j, order)
  /\ \A c \in Clients : sending[c] # NoOne => Len(order) > 0 /\ sending[c] = order[Len(order)]
  /\ caddr # NoOne => Len(served) < Len(order) /\ wanted = Length[order[Len(served) + 1]]

\* The inductive invariant: until something is lost, server and client agree on
\* which datagram comes next.
UdpInv == intact \in BOOLEAN /\ (intact => UdpTypes /\ InStep /\ ServedAsSent)

\* A datagram more in the socket, and maybe a message more in the order.
LEMMA PartAdded ==
  ASSUME NEW s \in Seq(Datagrams), NEW o \in Seq(Messages), NEW q \in Seq(Messages),
         Len(q) >= Len(o), \A i \in 1 .. Len(o) : q[i] = o[i],
         NEW t \in Nat, \A j \in 1 .. Len(s) : IsNth(s[j], t + j, o),
         NEW x \in Datagrams, IsNth(x, t + (Len(s) + 1), q)
  PROVE  /\ Append(s, x) \in Seq(Datagrams) /\ Len(Append(s, x)) = Len(s) + 1
         /\ \A j \in 1 .. Len(s) + 1 : IsNth(Append(s, x)[j], t + j, q)
<1>1. /\ Append(s, x) \in Seq(Datagrams) /\ Len(Append(s, x)) = Len(s) + 1
      /\ \A j \in 1 .. Len(s) : Append(s, x)[j] = s[j]
      /\ Append(s, x)[Len(s) + 1] = x
      /\ Len(s) \in Nat /\ Len(o) \in Nat /\ Len(q) \in Nat
  OBVIOUS
<1>2. ASSUME NEW j \in 1 .. Len(s) PROVE IsNth(s[j], t + j, q)
  <2>1. PICK i \in 1 .. Len(o) :
          /\ s[j].msg = o[i]
          /\ \/ t + j = 2 * i - 1 /\ s[j].part = "header"
             \/ t + j = 2 * i /\ s[j].part = "data"
    BY DEF IsNth
  <2>2. i \in 1 .. Len(q) /\ q[i] = o[i]
    BY <1>1
  <2> QED
    BY <2>1, <2>2 DEF IsNth
<1>3. \A j \in 1 .. Len(s) + 1 : j \in 1 .. Len(s) \/ j = Len(s) + 1
  BY <1>1
<1> QED
  BY <1>1, <1>2, <1>3

LEMMA UdpLengths ==
  ASSUME UdpTypes
  PROVE  /\ Len(socket) \in Nat /\ Len(order) \in Nat /\ Len(served) \in Nat
         /\ TakenParts \in Nat /\ SentParts \in Int
BY DEF UdpTypes, TakenParts, SentParts

LEMMA HeaderAdded ==
  ASSUME OneClient, UdpInv, NEW c \in Clients, NEW m \in Messages, SendHeader(c, m)
  PROVE  UdpInv'
<1>1. /\ intact' \in BOOLEAN /\ (intact' => intact)
      /\ sending[c] = NoOne /\ sending' = [sending EXCEPT ![c] = m] /\ order' = Append(order, m)
      /\ UNCHANGED <<caddr, wanted, served>>
  BY DEF SendHeader, Deliver, UdpInv
<1> SUFFICES ASSUME intact' PROVE UdpTypes' /\ InStep' /\ ServedAsSent'
  BY <1>1 DEF UdpInv
<1> DEFINE x == [from |-> c, part |-> "header", msg |-> m]
<1>2. intact /\ UdpTypes /\ InStep /\ ServedAsSent /\ socket' = Append(socket, x)
  BY <1>1 DEF UdpInv, SendHeader, Deliver
<1>3. x \in Datagrams /\ x.msg = m /\ x.part = "header"
  BY DEF Datagrams
<1> HIDE DEF x
<1>4. /\ Len(socket) \in Nat /\ Len(order) \in Nat /\ Len(served) \in Nat
      /\ TakenParts \in Nat /\ SentParts \in Int
      /\ socket \in Seq(Datagrams) /\ order \in Seq(Messages)
  BY <1>2, UdpLengths DEF UdpTypes
<1>5. /\ order' \in Seq(Messages) /\ Len(order') = Len(order) + 1
      /\ \A i \in 1 .. Len(order) : order'[i] = order[i]
      /\ order'[Len(order) + 1] = m
  BY <1>1, <1>4
<1>6. ~ HeaderSent /\ HeaderSent'
  <2>1. ~ HeaderSent
    BY <1>1 DEF OneClient, HeaderSent
  <2>2. sending'[c] = m /\ m # NoOne
    BY <1>1, <1>2, UdpAssumption DEF UdpTypes
  <2> QED
    BY <2>1, <2>2 DEF HeaderSent
<1>7. SentParts = 2 * Len(order) /\ SentParts' = 2 * (Len(order) + 1) - 1
  BY <1>4, <1>5, <1>6 DEF SentParts
<1>8. TakenParts' = TakenParts /\ Len(socket) = SentParts - TakenParts
  BY <1>1, <1>2 DEF TakenParts, InStep
<1>9. IsNth(x, TakenParts + (Len(socket) + 1), order')
  <2>1. TakenParts + (Len(socket) + 1) = 2 * (Len(order) + 1) - 1
    BY <1>4, <1>7, <1>8
  <2>2. Len(order) + 1 \in 1 .. Len(order')
    BY <1>4, <1>5
  <2> QED
    BY <1>3, <1>5, <2>1, <2>2 DEF IsNth
<1>10. /\ socket' \in Seq(Datagrams) /\ Len(socket') = Len(socket) + 1
       /\ \A j \in 1 .. Len(socket) + 1 : IsNth(socket'[j], TakenParts + j, order')
  <2>1. \A j \in 1 .. Len(socket) : IsNth(socket[j], TakenParts + j, order)
    BY <1>2 DEF InStep
  <2>2. Len(order') >= Len(order)
    BY <1>4, <1>5
  <2>3. PICK q \in Seq(Messages) : q = order'
    BY <1>5
  <2>4. /\ Append(socket, x) \in Seq(Datagrams) /\ Len(Append(socket, x)) = Len(socket) + 1
        /\ \A j \in 1 .. Len(socket) + 1 : IsNth(Append(socket, x)[j], TakenParts + j, q)
    <3>1. /\ Len(q) >= Len(order) /\ \A i \in 1 .. Len(order) : q[i] = order[i]
          /\ IsNth(x, TakenParts + (Len(socket) + 1), q)
      BY <1>5, <1>9, <2>2, <2>3
    <3> QED
      BY <1>3, <1>4, <2>1, <3>1, PartAdded
  <2> QED
    BY <1>2, <2>3, <2>4
<1>11. UdpTypes'
  <2>1. sending' \in [Clients -> Messages \cup {NoOne}]
    BY <1>1, <1>2 DEF UdpTypes
  <2> QED
    BY <1>1, <1>2, <1>5, <1>10, <2>1 DEF UdpTypes, ServedItems, Datagrams
<1>12. InStep'
  <2>1. Len(socket') = SentParts' - TakenParts'
    BY <1>4, <1>7, <1>8, <1>10
  <2>2. \A j \in 1 .. Len(socket') : IsNth(socket'[j], TakenParts' + j, order')
    BY <1>8, <1>10
  <2>3. \A d \in Clients : sending'[d] # NoOne =>
          Len(order') > 0 /\ sending'[d] = order'[Len(order')]
    <3>1. \A d \in Clients : d = c
      BY DEF OneClient
    <3>2. Len(order') > 0 /\ sending'[c] = m /\ order'[Len(order')] = m
      BY <1>1, <1>2, <1>4, <1>5 DEF UdpTypes
    <3> QED
      BY <3>1, <3>2
  <2>4. caddr' # NoOne => /\ Len(served') < Len(order')
                          /\ wanted' = Length[order'[Len(served') + 1]]
    <3> SUFFICES ASSUME caddr # NoOne
                 PROVE  /\ Len(served) < Len(order')
                        /\ wanted = Length[order'[Len(served) + 1]]
      BY <1>1
    <3>1. Len(served) < Len(order) /\ wanted = Length[order[Len(served) + 1]]
      BY <1>2 DEF InStep
    <3>2. Len(served) + 1 \in 1 .. Len(order) /\ Len(served) < Len(order')
      BY <1>4, <1>5, <3>1
    <3> QED
      BY <1>5, <3>1, <3>2
  <2> QED
    BY <2>1, <2>2, <2>3, <2>4 DEF InStep, IsNth
<1>13. ServedAsSent'
  <2>1. \A i \in 1 .. Len(served) : i \in 1 .. Len(order)
    <3>1. TakenParts <= SentParts /\ TakenParts >= 2 * Len(served)
      BY <1>4, <1>8 DEF TakenParts
    <3>2. Len(served) <= Len(order)
      BY <1>4, <1>7, <3>1
    <3> QED
      BY <1>4, <3>2
  <2> QED
    BY <1>1, <1>2, <1>5, <2>1 DEF ServedAsSent
<1> QED
  BY <1>11, <1>12, <1>13

LEMMA DataAdded ==
  ASSUME OneClient, UdpInv, NEW c \in Clients, SendData(c)
  PROVE  UdpInv'
<1>1. /\ intact' \in BOOLEAN /\ (intact' => intact)
      /\ sending[c] # NoOne /\ sending' = [sending EXCEPT ![c] = NoOne]
      /\ UNCHANGED <<order, caddr, wanted, served>>
  BY DEF SendData, Deliver, UdpInv
<1> SUFFICES ASSUME intact' PROVE UdpTypes' /\ InStep' /\ ServedAsSent'
  BY <1>1 DEF UdpInv
<1> DEFINE x == [from |-> c, part |-> "data", msg |-> sending[c]]
<1>2. intact /\ UdpTypes /\ InStep /\ ServedAsSent /\ socket' = Append(socket, x)
  BY <1>1 DEF UdpInv, SendData, Deliver
<1>3. x \in Datagrams /\ x.msg = sending[c] /\ x.part = "data"
  <2>1. sending[c] \in Messages
    BY <1>1, <1>2 DEF UdpTypes
  <2> QED
    BY <2>1 DEF Datagrams
<1> HIDE DEF x
<1>4. /\ Len(socket) \in Nat /\ Len(order) \in Nat /\ Len(served) \in Nat
      /\ TakenParts \in Nat /\ SentParts \in Int
      /\ socket \in Seq(Datagrams) /\ order \in Seq(Messages)
  BY <1>2, UdpLengths DEF UdpTypes
<1>5. HeaderSent /\ ~ HeaderSent'
  <2>1. \A d \in Clients : sending'[d] = NoOne
    BY <1>1, <1>2 DEF OneClient, UdpTypes
  <2> QED
    BY <1>1, <2>1 DEF HeaderSent
<1>6. SentParts = 2 * Len(order) - 1 /\ SentParts' = 2 * Len(order)
  BY <1>1, <1>4, <1>5 DEF SentParts
<1>7. TakenParts' = TakenParts /\ Len(socket) = SentParts - TakenParts
  BY <1>1, <1>2 DEF TakenParts, InStep
<1>8. IsNth(x, TakenParts + (Len(socket) + 1), order)
  <2>1. TakenParts + (Len(socket) + 1) = 2 * Len(order)
    BY <1>4, <1>6, <1>7
  <2>2. Len(order) \in 1 .. Len(order) /\ sending[c] = order[Len(order)]
    BY <1>1, <1>2, <1>4 DEF InStep
  <2> QED
    BY <1>3, <2>1, <2>2 DEF IsNth
<1>9. /\ socket' \in Seq(Datagrams) /\ Len(socket') = Len(socket) + 1
      /\ \A j \in 1 .. Len(socket) + 1 : IsNth(socket'[j], TakenParts + j, order)
  <2>1. \A j \in 1 .. Len(socket) : IsNth(socket[j], TakenParts + j, order)
    BY <1>2 DEF InStep
  <2>2. Len(order) >= Len(order)
    BY <1>4
  <2>3. /\ Append(socket, x) \in Seq(Datagrams) /\ Len(Append(socket, x)) = Len(socket) + 1
        /\ \A j \in 1 .. Len(socket) + 1 : IsNth(Append(socket, x)[j], TakenParts + j, order)
    BY <1>3, <1>4, <1>8, <2>1, <2>2, PartAdded
  <2> QED
    BY <1>2, <2>3
<1>10. UdpTypes'
  <2>1. sending' \in [Clients -> Messages \cup {NoOne}]
    BY <1>1, <1>2 DEF UdpTypes
  <2> QED
    BY <1>1, <1>2, <1>9, <2>1 DEF UdpTypes, ServedItems, Datagrams
<1>11. InStep'
  <2>1. Len(socket') = SentParts' - TakenParts'
    BY <1>4, <1>6, <1>7, <1>9
  <2>2. \A j \in 1 .. Len(socket') : IsNth(socket'[j], TakenParts' + j, order')
    BY <1>1, <1>7, <1>9
  <2>3. \A d \in Clients : sending'[d] = NoOne
    BY <1>5 DEF HeaderSent
  <2> QED
    BY <1>1, <1>2, <2>1, <2>2, <2>3 DEF InStep, IsNth
<1>12. ServedAsSent'
  BY <1>1, <1>2 DEF ServedAsSent
<1> QED
  BY <1>10, <1>11, <1>12

\* The first of the datagrams in the socket, and the others.
LEMMA PartTaken ==
  ASSUME NEW s \in Seq(Datagrams), s # <<>>, NEW t \in Nat, NEW o,
         \A j \in 1 .. Len(s) : IsNth(s[j], t + j, o)
  PROVE  /\ Head(s) \in Datagrams /\ IsNth(Head(s), t + 1, o)
         /\ Tail(s) \in Seq(Datagrams) /\ Len(Tail(s)) = Len(s) - 1
         /\ \A j \in 1 .. Len(s) - 1 : IsNth(Tail(s)[j], (t + 1) + j, o)
<1>1. /\ Len(s) \in Nat /\ Len(s) >= 1 /\ Head(s) = s[1]
      /\ Tail(s) \in Seq(Datagrams) /\ Len(Tail(s)) = Len(s) - 1
      /\ \A j \in 1 .. Len(s) - 1 : Tail(s)[j] = s[j + 1]
  OBVIOUS
<1>2. 1 \in 1 .. Len(s) /\ s[1] \in Datagrams
  BY <1>1
<1>3. ASSUME NEW j \in 1 .. Len(s) - 1 PROVE IsNth(Tail(s)[j], (t + 1) + j, o)
  <2>1. j + 1 \in 1 .. Len(s) /\ t + (j + 1) = (t + 1) + j
    BY <1>1
  <2>2. IsNth(s[j + 1], t + (j + 1), o)
    BY <2>1
  <2> QED
    BY <1>1, <2>1, <2>2
<1> QED
  BY <1>1, <1>2, <1>3

LEMMA TakeStep ==
  ASSUME UdpInv, NEW d \in Datagrams, RecvHdr(d) \/ RecvShort(d) \/ RecvBody(d)
  PROVE  UdpInv'
<1>1. /\ intact' = intact /\ socket # <<>> /\ d = Head(socket) /\ socket' = Tail(socket)
      /\ UNCHANGED <<sending, order>>
  BY DEF RecvHdr, RecvShort, RecvBody
<1> SUFFICES ASSUME intact PROVE UdpTypes' /\ InStep' /\ ServedAsSent'
  BY <1>1 DEF UdpInv
<1>2. UdpTypes /\ InStep /\ ServedAsSent
  BY DEF UdpInv
<1>3. /\ Len(socket) \in Nat /\ Len(order) \in Nat /\ Len(served) \in Nat
      /\ TakenParts \in Nat /\ SentParts \in Int
      /\ socket \in Seq(Datagrams) /\ order \in Seq(Messages)
      /\ served \in Seq(ServedItems)
      /\ Len(socket) = SentParts - TakenParts /\ SentParts' = SentParts
  BY <1>1, <1>2, UdpLengths DEF UdpTypes, InStep, SentParts, HeaderSent
<1>4. /\ IsNth(d, TakenParts + 1, order)
      /\ socket' \in Seq(Datagrams) /\ Len(socket') = Len(socket) - 1
      /\ \A j \in 1 .. Len(socket) - 1 : IsNth(socket'[j], (TakenParts + 1) + j, order)
  <2>1. \A j \in 1 .. Len(socket) : IsNth(socket[j], TakenParts + j, order)
    BY <1>2 DEF InStep
  <2>2. /\ Head(socket) \in Datagrams /\ IsNth(Head(socket), TakenParts + 1, order)
        /\ Tail(socket) \in Seq(Datagrams) /\ Len(Tail(socket)) = Len(socket) - 1
        /\ \A j \in 1 .. Len(socket) - 1 : IsNth(Tail(socket)[j], (TakenParts + 1) + j, order)
    BY <1>1, <1>3, <2>1, PartTaken
  <2> QED
    BY <1>1, <2>2
<1>5. PICK i \in 1 .. Len(order) :
        /\ d.msg = order[i]
        /\ \/ TakenParts + 1 = 2 * i - 1 /\ d.part = "header"
           \/ TakenParts + 1 = 2 * i /\ d.part = "data"
  BY <1>4 DEF IsNth
<1>6. d.from \in Clients /\ d.msg \in Messages /\ d.part \in {"header", "data"} /\ i \in Nat
  BY <1>3 DEF Datagrams
<1> DEFINE s == Len(served)
<1>7. CASE caddr = NoOne
  <2>1. TakenParts = 2 * s
    BY <1>3, <1>7 DEF TakenParts
  <2>2. i = s + 1 /\ d.part = "header"
    BY <1>3, <1>5, <1>6, <2>1
  <2>3. SizeOf(d) = HeaderLen /\ HeaderLen \in Nat /\ ~ (HeaderLen < HeaderLen)
    BY <2>2, UdpAssumption DEF SizeOf
  <2>4. RecvHdr(d)
    BY <1>7, <2>3 DEF RecvShort, RecvBody
  <2>5. /\ caddr' = d.from /\ caddr' # NoOne /\ caddr' \in Clients
        /\ wanted' = Length[order[s + 1]] /\ wanted' \in Nat /\ served' = served
    BY <1>5, <1>6, <2>2, <2>4, UdpAssumption DEF RecvHdr, LengthIn
  <2>6. TakenParts' = TakenParts + 1
    BY <1>3, <2>1, <2>5 DEF TakenParts
  <2>7. s < Len(order)
    BY <1>3, <1>6, <2>2
  <2>8. UdpTypes'
    BY <1>1, <1>2, <1>4, <2>5 DEF UdpTypes, ServedItems, Datagrams
  <2>9. Len(socket') = SentParts' - TakenParts'
    BY <1>3, <1>4, <2>6
  <2>10. \A j \in 1 .. Len(socket') : IsNth(socket'[j], TakenParts' + j, order')
    BY <1>1, <1>4, <2>6
  <2>11. InStep'
    BY <1>1, <1>2, <2>5, <2>7, <2>9, <2>10 DEF InStep, IsNth
  <2>12. ServedAsSent'
    BY <1>1, <1>2, <2>5 DEF ServedAsSent
  <2> QED
    BY <2>8, <2>11, <2>12
<1>8. CASE caddr # NoOne
  <2>1. TakenParts = 2 * s + 1 /\ s < Len(order) /\ wanted = Length[order[s + 1]]
    BY <1>2, <1>3, <1>8 DEF TakenParts, InStep
  <2>2. i = s + 1 /\ d.part = "data"
    BY <1>3, <1>5, <1>6, <2>1
  <2>3. SizeOf(d) = wanted /\ ~ (SizeOf(d) < wanted) /\ wanted \in Nat
    <3>1. SizeOf(d) = Length[d.msg] /\ Length[d.msg] \in Nat
      BY <1>6, <2>2, UdpAssumption DEF SizeOf
    <3> QED
      BY <1>5, <2>1, <2>2, <3>1
  <2>4. RecvBody(d)
    BY <1>8 DEF RecvHdr, RecvShort
  <2> DEFINE answer == [from |-> caddr, datagram |-> d, length |-> wanted]
  <2>5. caddr' = NoOne /\ wanted' = 0 /\ served' = Append(served, answer)
    BY <2>3, <2>4 DEF RecvBody
  <2>6. answer \in ServedItems /\ answer.datagram = d /\ answer.length = wanted
    BY <1>2, <1>8, <2>3 DEF ServedItems, UdpTypes
  <2> HIDE DEF answer
  <2>7. /\ served' \in Seq(ServedItems) /\ Len(served') = s + 1
        /\ \A j \in 1 .. s : served'[j] = served[j]
        /\ served'[s + 1] = answer
    BY <1>3, <2>5, <2>6
  <2>8. TakenParts' = TakenParts + 1
    <3>1. TakenParts' = 2 * (s + 1) + 0
      BY <2>5, <2>7 DEF TakenParts
    <3> QED
      BY <1>3, <2>1, <3>1
  <2>9. UdpTypes'
    BY <1>1, <1>2, <1>4, <2>5, <2>7 DEF UdpTypes, ServedItems, Datagrams
  <2>10. Len(socket') = SentParts' - TakenParts'
    BY <1>3, <1>4, <2>8
  <2>11. \A j \in 1 .. Len(socket') : IsNth(socket'[j], TakenParts' + j, order')
    BY <1>1, <1>4, <2>8
  <2>12. InStep'
    BY <1>1, <1>2, <2>5, <2>10, <2>11 DEF InStep, IsNth
  <2>13. ServedAsSent'
    <3>1. \A j \in 1 .. s + 1 : j \in 1 .. s \/ j = s + 1
      BY <1>3
    <3>2. d.part = "data" /\ d.msg = order[s + 1] /\ wanted = Length[d.msg]
      BY <1>5, <2>1, <2>2
    <3>3. \A j \in 1 .. s :
            /\ served[j].datagram.part = "data" /\ served[j].datagram.msg = order[j]
            /\ served[j].length = Length[served[j].datagram.msg]
      BY <1>2 DEF ServedAsSent
    <3>4. \A j \in 1 .. s + 1 :
            /\ served'[j].datagram.part = "data" /\ served'[j].datagram.msg = order[j]
            /\ served'[j].length = Length[served'[j].datagram.msg]
      BY <2>6, <2>7, <3>1, <3>2, <3>3
    <3> QED
      BY <1>1, <2>7, <3>4 DEF ServedAsSent
  <2> QED
    BY <2>9, <2>12, <2>13
<1> QED
  BY <1>7, <1>8

\* ipcmsg_send, ipcmsg_recv: with one client and until something is lost, every
\* message is served whole and in the order of sending, though no datagram says
\* which part it is; for any messages and lengths.
THEOREM ServedInOrder == OneClient => (UdpSpec => []ServedAsSent)
<1> SUFFICES ASSUME OneClient PROVE UdpSpec => []ServedAsSent
  OBVIOUS
<1>1. UdpInit => UdpInv
  <2> SUFFICES ASSUME UdpInit PROVE UdpInv
    OBVIOUS
  <2>1. /\ socket = <<>> /\ order = <<>> /\ intact = TRUE /\ served = <<>> /\ caddr = NoOne
        /\ sending = [c \in Clients |-> NoOne] /\ wanted = 0
    BY DEF UdpInit
  <2>2. /\ <<>> \in Seq(Datagrams) /\ <<>> \in Seq(Messages) /\ <<>> \in Seq(ServedItems)
        /\ Len(<<>>) = 0 /\ 1 .. 0 = {} /\ 0 \in Nat
    OBVIOUS
  <2>3. UdpTypes
    BY <2>1, <2>2 DEF UdpTypes
  <2>4. SentParts = 0 /\ TakenParts = 0
    BY <2>1, <2>2 DEF SentParts, TakenParts, HeaderSent
  <2>5. InStep
    BY <2>1, <2>2, <2>4 DEF InStep
  <2>6. ServedAsSent
    BY <2>1, <2>2 DEF ServedAsSent
  <2> QED
    BY <2>1, <2>3, <2>5, <2>6 DEF UdpInv
<1>2. UdpInv /\ [UdpNext]_udpVars => UdpInv'
  <2> SUFFICES ASSUME UdpInv, [UdpNext]_udpVars PROVE UdpInv'
    OBVIOUS
  <2>1. ASSUME NEW c \in Clients, SendData(c) PROVE UdpInv'
    BY <2>1, DataAdded
  <2>2. ASSUME NEW c \in Clients, NEW m \in Messages, SendHeader(c, m) PROVE UdpInv'
    BY <2>2, HeaderAdded
  <2>3. ASSUME NEW d \in Datagrams, RecvHdr(d) \/ RecvShort(d) \/ RecvBody(d) PROVE UdpInv'
    BY <2>3, TakeStep
  <2>4. CASE RecvNoMemory
    BY <2>4 DEF RecvNoMemory, UdpInv
  <2>5. CASE UNCHANGED udpVars
    BY <2>5 DEF udpVars, UdpInv, UdpTypes, InStep, ServedAsSent, SentParts, TakenParts,
                HeaderSent, IsNth, ServedItems, Datagrams
  <2> QED
    BY <2>1, <2>2, <2>3, <2>4, <2>5 DEF UdpNext
<1>3. UdpInv => ServedAsSent
  BY DEF UdpInv, ServedAsSent
<1> QED
  BY <1>1, <1>2, <1>3, PTL DEF UdpSpec

-----------------------------------------------------------------------------
(* xfile.c: xread, xwrite, xfile_read *)

\* The pieces of the data follow each other.
LEMMA PiecesFollow ==
  ASSUME NEW p \in Nat, NEW c \in Nat
  PROVE  /\ Piece(0, p) \in Seq(Nat) /\ Piece(p, c) \in Seq(Nat)
         /\ Len(Piece(0, p)) = p /\ Len(Piece(p, c)) = c
         /\ Piece(0, p) \o Piece(p, c) = Piece(0, p + c)
<1>1. \A n \in Nat : \A f \in [1 .. n -> Nat] : f \in Seq(Nat) /\ Len(f) = n
  OBVIOUS
<1>2. ASSUME NEW q \in Nat, NEW n \in Nat
      PROVE  /\ Piece(q, n) \in Seq(Nat) /\ Len(Piece(q, n)) = n
             /\ \A i \in 1 .. n : Piece(q, n)[i] = q + i
  <2>1. Piece(q, n) = [i \in 1 .. n |-> q + i]
    BY DEF Piece
  <2>2. \A i \in 1 .. n : q + i \in Nat
    OBVIOUS
  <2>3. Piece(q, n) \in [1 .. n -> Nat]
    BY <2>1, <2>2
  <2> QED
    BY <1>1, <2>1, <2>3
<1> DEFINE a == Piece(0, p)
<1> DEFINE b == Piece(p, c)
<1> DEFINE d == Piece(0, p + c)
<1>3. /\ a \in Seq(Nat) /\ Len(a) = p /\ b \in Seq(Nat) /\ Len(b) = c
      /\ d \in Seq(Nat) /\ Len(d) = p + c
      /\ \A i \in 1 .. p : a[i] = i
      /\ \A i \in 1 .. c : b[i] = p + i
      /\ \A i \in 1 .. p + c : d[i] = i
  <2>1. p + c \in Nat /\ 0 \in Nat
    OBVIOUS
  <2>2. \A n \in Nat : \A i \in 1 .. n : 0 + i = i
    OBVIOUS
  <2> QED
    BY <1>2, <2>1, <2>2
<1> HIDE DEF a, b, d
<1>4. /\ a \o b \in Seq(Nat) /\ Len(a \o b) = p + c
      /\ \A i \in 1 .. p : (a \o b)[i] = a[i]
      /\ \A i \in 1 .. c : (a \o b)[p + i] = b[i]
  <2>1. \A s, t \in Seq(Nat) :
          /\ s \o t \in Seq(Nat) /\ Len(s \o t) = Len(s) + Len(t)
          /\ \A i \in 1 .. Len(s) : (s \o t)[i] = s[i]
          /\ \A i \in 1 .. Len(t) : (s \o t)[Len(s) + i] = t[i]
    OBVIOUS
  <2>2. a \in Seq(Nat) /\ Len(a) = p /\ b \in Seq(Nat) /\ Len(b) = c
    BY <1>3
  <2> QED
    BY <2>1, <2>2
<1>5. \A i \in 1 .. p + c : (a \o b)[i] = i
  <2> SUFFICES ASSUME NEW i \in 1 .. p + c PROVE (a \o b)[i] = i
    OBVIOUS
  <2>1. CASE i \in 1 .. p
    BY <1>3, <1>4, <2>1
  <2>2. CASE i \notin 1 .. p
    <3>1. i - p \in 1 .. c /\ p + (i - p) = i
      BY <2>2
    <3> QED
      BY <1>3, <1>4, <3>1
  <2> QED
    BY <2>1, <2>2
<1>6. a \o b = d
  <2>1. \A s, t \in Seq(Nat) :
          Len(s) = Len(t) /\ (\A i \in 1 .. Len(s) : s[i] = t[i]) => s = t
    OBVIOUS
  <2> QED
    BY <1>3, <1>4, <1>5, <2>1
<1> QED
  BY <1>3, <1>6 DEF a, b, d

\* The inductive invariant: what a call has moved is what it counts, and
\* xfile_read has all that was given out as long as it goes on.
TransferInv ==
  /\ pos \in Nat /\ told \in Nat /\ memory \in Seq(Nat)
  /\ transfer \in [runs : BOOLEAN, len : Nat, total : Nat, buf : Seq(Nat), result : Int]
  /\ mode = "xread" => Len(transfer.buf) = transfer.total
  /\ mode = "xfile_read" /\ transfer.result = 0 => memory = Piece(0, pos) /\ transfer.total = pos
  /\ TransfersAreWhole

\* What a call that moves no more leaves.
LEMMA ReturnKeeps ==
  ASSUME TransferInv, mode # "xfile_read", transfer.runs, Returned(transfer.total) \/ Returned(AfterError(transfer.total)),
         UNCHANGED <<mode, pos>>
  PROVE  TransferInv'
<1> DEFINE T == [runs : BOOLEAN, len : Nat, total : Nat, buf : Seq(Nat), result : Int]
<1>1. /\ pos \in Nat /\ told \in Nat /\ memory \in Seq(Nat) /\ transfer \in T
      /\ transfer.total \in Nat /\ transfer.buf \in Seq(Nat) /\ transfer.runs = TRUE
  BY DEF TransferInv
<1>2. PICK r \in Int : /\ Returned(r)
                       /\ r > 0 => r = transfer.total
                       /\ ~ (r > 0) => transfer.total = 0
  <2>1. transfer.total \in Int /\ AfterError(transfer.total) \in Int
    BY <1>1 DEF AfterError
  <2>2. /\ AfterError(transfer.total) > 0 => AfterError(transfer.total) = transfer.total
        /\ ~ (AfterError(transfer.total) > 0) => transfer.total = 0
        /\ ~ (transfer.total > 0) => transfer.total = 0
    BY <1>1 DEF AfterError
  <2> QED
    BY <2>1, <2>2
<1>3. /\ transfer' = [transfer EXCEPT !.runs = FALSE, !.result = r]
      /\ memory' = IF mode = "xread" /\ r > 0 THEN memory \o SubSeq(transfer.buf, 1, r) ELSE memory
      /\ told' = IF r > 0 THEN told + r ELSE told
      /\ mode' = mode /\ pos' = pos
  BY <1>2 DEF Returned
<1>4. told' = told + transfer.total /\ told' \in Nat
  BY <1>1, <1>2, <1>3
<1>5. transfer' \in T /\ transfer'.runs = FALSE /\ transfer'.total = transfer.total /\ transfer'.buf = transfer.buf
  BY <1>1, <1>3
<1>6. CASE mode = "xread"
  <2>1. Len(transfer.buf) = transfer.total /\ memory \o transfer.buf = Piece(0, pos)
    BY <1>1, <1>6 DEF TransferInv, TransfersAreWhole
  <2>2. memory' = memory \o transfer.buf
    <3>1. CASE r > 0
      <4>1. \A s \in Seq(Nat) : SubSeq(s, 1, Len(s)) = s
        OBVIOUS
      <4>2. memory' = memory \o SubSeq(transfer.buf, 1, r)
        BY <1>3, <1>6, <3>1
      <4>3. r = Len(transfer.buf)
        BY <1>2, <2>1, <3>1
      <4> QED
        BY <1>1, <4>1, <4>2, <4>3
    <3>2. CASE ~ (r > 0)
      <4>1. Len(transfer.buf) = 0
        BY <1>2, <2>1, <3>2
      <4>2. \A s, t \in Seq(Nat) : Len(t) = 0 => s \o t = s
        OBVIOUS
      <4>3. memory' = memory
        BY <1>3, <3>2
      <4> QED
        BY <1>1, <4>1, <4>2, <4>3
    <3> QED
      BY <3>1, <3>2
  <2>3. memory' \in Seq(Nat) /\ memory' \o <<>> = memory'
    <3>1. \A s, t \in Seq(Nat) : s \o t \in Seq(Nat) /\ s \o <<>> = s
      OBVIOUS
    <3> QED
      BY <1>1, <2>2, <3>1
  <2> QED
    BY <1>1, <1>3, <1>4, <1>5, <1>6, <2>1, <2>2, <2>3 DEF TransferInv, TransfersAreWhole, Piece
<1>7. CASE mode = "xwrite"
  <2>1. memory = Piece(0, pos) /\ pos = told + transfer.total /\ memory' = memory
    BY <1>1, <1>3, <1>7 DEF TransferInv, TransfersAreWhole
  <2>2. pos' = told' + 0
    BY <1>1, <1>3, <1>4, <2>1
  <2> QED
    BY <1>1, <1>3, <1>4, <1>5, <1>7, <2>1, <2>2 DEF TransferInv, TransfersAreWhole, Piece
<1>8. CASE mode # "xread" /\ mode # "xwrite"
  <2>1. memory' = memory
    BY <1>3, <1>8
  <2> QED
    BY <1>1, <1>3, <1>4, <1>5, <1>8, <2>1 DEF TransferInv, TransfersAreWhole
<1> QED
  BY <1>6, <1>7, <1>8

LEMMA TransferStep ==
  ASSUME TransferInv, [TransferNext]_transferVars
  PROVE  TransferInv'
<1> DEFINE T == [runs : BOOLEAN, len : Nat, total : Nat, buf : Seq(Nat), result : Int]
<1>1. /\ pos \in Nat /\ told \in Nat /\ memory \in Seq(Nat) /\ transfer \in T
      /\ transfer.len \in Nat /\ transfer.total \in Nat /\ transfer.buf \in Seq(Nat)
      /\ transfer.result \in Int /\ transfer.runs \in BOOLEAN
  BY DEF TransferInv
<1>2. \A s \in Seq(Nat) : s \o <<>> = s
  OBVIOUS
<1>3. CASE Start
  <2>1. PICK len \in CallLens : transfer' = [Idle EXCEPT !.runs = TRUE, !.len = len]
    BY <1>3 DEF Start
  <2>2. len \in Nat
    BY TransferAssumption
  <2>3. mode # "xfile_read" /\ transfer.runs = FALSE /\ UNCHANGED <<mode, pos, memory, told>>
    BY <1>1, <1>3 DEF Start
  <2>4. /\ transfer' \in T /\ transfer'.runs = TRUE /\ transfer'.buf = <<>>
        /\ transfer'.total = 0 /\ Len(transfer'.buf) = transfer'.total
    <3>1. <<>> \in Seq(Nat) /\ Len(<<>>) = 0
      OBVIOUS
    <3>2. Idle = [runs |-> FALSE, len |-> 0, total |-> 0, buf |-> <<>>, result |-> 0]
      BY DEF Idle
    <3>3. transfer' = [runs |-> TRUE, len |-> len, total |-> 0, buf |-> <<>>, result |-> 0]
      BY <2>1, <3>2
    <3> QED
      BY <2>2, <3>1, <3>3
  <2> QED
    BY <1>1, <1>2, <2>3, <2>4 DEF TransferInv, TransfersAreWhole, Piece
<1>4. CASE Finish
  BY <1>4, ReturnKeeps DEF Finish
<1>5. CASE Fail
  BY <1>5, ReturnKeeps DEF Fail
<1>6. CASE ReadSome
  <2>1. mode = "xread" /\ transfer.runs = TRUE /\ mode' = mode
    BY <1>1, <1>6 DEF ReadSome
  <2>2. CASE Returned(transfer.total) /\ UNCHANGED pos
    BY <2>1, <2>2, ReturnKeeps
  <2>3. ASSUME NEW cc \in 1 .. transfer.len, pos' = pos + cc,
               transfer' = [transfer EXCEPT !.buf = @ \o Piece(pos, cc), !.total = @ + cc, !.len = @ - cc],
               UNCHANGED <<memory, told>>
        PROVE  TransferInv'
    <3>1. cc \in Nat /\ transfer.len - cc \in Nat /\ transfer.total + cc \in Nat
      BY <1>1
    <3>2. /\ Piece(pos, cc) \in Seq(Nat) /\ Len(Piece(pos, cc)) = cc
          /\ Piece(0, pos) \o Piece(pos, cc) = Piece(0, pos + cc)
      BY <1>1, <3>1, PiecesFollow
    <3> DEFINE b == transfer.buf \o Piece(pos, cc)
    <3>3. /\ b \in Seq(Nat) /\ Len(b) = transfer.total + cc
          /\ memory \o b = Piece(0, pos + cc)
      <4>1. \A s, t \in Seq(Nat) : s \o t \in Seq(Nat) /\ Len(s \o t) = Len(s) + Len(t)
        OBVIOUS
      <4>2. \A s, t, u \in Seq(Nat) : s \o (t \o u) = (s \o t) \o u
        BY SMTT(20), ConcatAssociative
      <4>3. Len(transfer.buf) = transfer.total /\ memory \o transfer.buf = Piece(0, pos)
        BY <2>1 DEF TransferInv, TransfersAreWhole
      <4>4. /\ b \in Seq(Nat) /\ Len(b) = Len(transfer.buf) + Len(Piece(pos, cc))
        BY <1>1, <3>2, <4>1
      <4>5. memory \o b = (memory \o transfer.buf) \o Piece(pos, cc)
        BY <1>1, <3>2, <4>2
      <4> HIDE DEF b
      <4> QED
        BY <3>2, <4>3, <4>4, <4>5
    <3> HIDE DEF b
    <3>4. /\ transfer' \in T /\ transfer'.runs = TRUE /\ transfer'.buf = b
          /\ transfer'.total = transfer.total + cc
      BY <1>1, <2>1, <2>3, <3>1, <3>3 DEF b
    <3>5. pos' \in Nat
      BY <1>1, <2>3, <3>1
    <3> QED
      BY <1>1, <2>1, <2>3, <3>3, <3>4, <3>5 DEF TransferInv, TransfersAreWhole, Piece
  <2> QED
    BY <1>6, <2>2, <2>3 DEF ReadSome
<1>7. CASE WriteSome
  <2>1. mode = "xwrite" /\ transfer.runs = TRUE /\ mode' = mode /\ told' = told
    BY <1>1, <1>7 DEF WriteSome
  <2>2. PICK cc \in 1 .. transfer.len :
          /\ memory' = memory \o Piece(told + transfer.total, cc)
          /\ pos' = pos + cc
          /\ transfer' = [transfer EXCEPT !.total = @ + cc, !.len = @ - cc]
    BY <1>7 DEF WriteSome
  <2>3. cc \in Nat /\ transfer.len - cc \in Nat /\ transfer.total + cc \in Nat
    BY <1>1
  <2>4. memory = Piece(0, pos) /\ pos = told + transfer.total
    BY <2>1 DEF TransferInv, TransfersAreWhole
  <2>5. memory' = Piece(0, pos + cc) /\ pos + cc \in Nat /\ Piece(0, pos + cc) \in Seq(Nat)
    <3>1. pos + cc \in Nat /\ 0 \in Nat
      BY <1>1, <2>3
    <3> QED
      BY <1>1, <2>2, <2>3, <2>4, <3>1, PiecesFollow
  <2>6. /\ transfer' \in T /\ transfer'.runs = TRUE
        /\ transfer'.total = transfer.total + cc
    BY <1>1, <2>1, <2>2, <2>3
  <2>7. pos' = told + (transfer.total + cc)
    BY <1>1, <2>2, <2>3, <2>4
  <2> QED
    BY <1>1, <2>1, <2>2, <2>5, <2>6, <2>7 DEF TransferInv, TransfersAreWhole, Piece
<1>8. CASE ReadFile
  <2>1. mode = "xfile_read" /\ mode' = mode /\ told' = told /\ transfer.result = 0
    BY <1>8 DEF ReadFile
  <2>2. memory = Piece(0, pos) /\ transfer.total = pos
    BY <2>1 DEF TransferInv
  <2>3. CASE pos = DataLen /\ transfer' = [transfer EXCEPT !.result = 1] /\ UNCHANGED <<pos, memory>>
    <3>1. /\ transfer' \in T /\ transfer'.result = 1 /\ transfer'.total = transfer.total
      <4>1. transfer' = [runs |-> transfer.runs, len |-> transfer.len, total |-> transfer.total,
                         buf |-> transfer.buf, result |-> 1]
        BY <1>1, <2>3
      <4> QED
        BY <1>1, <4>1
    <3> QED
      BY <1>1, <2>1, <2>2, <2>3, <3>1 DEF TransferInv, TransfersAreWhole, Piece
  <2>4. ASSUME NEW len \in 1 .. ReadChunk, pos' = pos + len, memory' = memory \o Piece(pos, len),
               transfer' = [transfer EXCEPT !.total = @ + len]
        PROVE  TransferInv'
    <3>1. len \in Nat /\ transfer.total + len \in Nat /\ pos + len \in Nat
      BY <1>1, TransferAssumption
    <3>2. memory' = Piece(0, pos + len) /\ Piece(0, pos + len) \in Seq(Nat)
      BY <1>1, <2>2, <2>4, <3>1, PiecesFollow
    <3>3. /\ transfer' \in T /\ transfer'.result = 0 /\ transfer'.total = pos + len
      BY <1>1, <2>1, <2>2, <2>4, <3>1
    <3>4. /\ pos' \in Nat /\ told' \in Nat /\ memory' \in Seq(Nat) /\ memory' = Piece(0, pos')
          /\ transfer'.total = pos' /\ mode' = "xfile_read" /\ transfer'.result # 1
      BY <1>1, <2>1, <2>4, <3>1, <3>2, <3>3
    <3> QED
      BY <3>3, <3>4 DEF TransferInv, TransfersAreWhole, Piece
  <2>5. ASSUME NEW len \in 1 .. ReadChunk, pos' = pos + len, memory' = <<>>,
               transfer' = [transfer EXCEPT !.total = 0, !.result = 2]
        PROVE  TransferInv'
    <3>1. pos + len \in Nat /\ <<>> \in Seq(Nat)
      BY <1>1, TransferAssumption
    <3>2. transfer' \in T /\ transfer'.result = 2
      <4>1. transfer' = [runs |-> transfer.runs, len |-> transfer.len, total |-> 0,
                         buf |-> transfer.buf, result |-> 2]
        BY <1>1, <2>5
      <4> QED
        BY <1>1, <4>1
    <3> QED
      BY <1>1, <2>1, <2>5, <3>1, <3>2 DEF TransferInv, TransfersAreWhole
  <2>6. CASE transfer' = [transfer EXCEPT !.result = -1] /\ UNCHANGED <<pos, memory>>
    <3>1. transfer' \in T /\ transfer'.result = -1
      BY SMTT(20), <1>1, <2>6
    <3> QED
      BY <1>1, <2>1, <2>6, <3>1 DEF TransferInv, TransfersAreWhole
  <2> QED
    BY <1>8, <2>3, <2>4, <2>5, <2>6 DEF ReadFile
<1>9. CASE UNCHANGED transferVars
  BY <1>9 DEF transferVars, TransferInv, TransfersAreWhole, Piece
<1> QED
  BY <1>3, <1>4, <1>5, <1>6, <1>7, <1>8, <1>9 DEF TransferNext

\* xread, xwrite, xfile_read: whatever is interrupted, cut short or fails, no
\* byte is lost or moved twice, for data and calls of any length.
THEOREM TransfersWhole == TransferSpec => []TransfersAreWhole
<1>1. TransferInit => TransferInv
  <2> SUFFICES ASSUME TransferInit PROVE TransferInv
    OBVIOUS
  <2>1. Piece(0, 0) = <<>> /\ <<>> \in Seq(Nat) /\ Len(<<>>) = 0 /\ <<>> \o <<>> = <<>>
    <3>1. Piece(0, 0) = [i \in 1 .. 0 |-> 0 + i]
      BY DEF Piece
    <3> QED
      BY <3>1
  <2>2. /\ pos = 0 /\ memory = <<>> /\ told = 0 /\ transfer = Idle
        /\ transfer.runs = FALSE /\ transfer.buf = <<>> /\ transfer.total = 0 /\ transfer.result = 0
        /\ transfer \in [runs : BOOLEAN, len : Nat, total : Nat, buf : Seq(Nat), result : Int]
    BY <2>1 DEF TransferInit, Idle
  <2> QED
    BY <2>1, <2>2 DEF TransferInv, TransfersAreWhole
<1>2. TransferInv /\ [TransferNext]_transferVars => TransferInv'
  BY TransferStep
<1>3. TransferInv => TransfersAreWhole
  BY DEF TransferInv
<1> QED
  BY <1>1, <1>2, <1>3, PTL DEF TransferSpec

-----------------------------------------------------------------------------
(* xbitmap.c *)

\* The build: a long has the bits that the header says.
OneLong == BITS_PER_LONG = LongBits

\* The word and the bit of an offset, and the offset of a bit of a word.
LEMMA WordAndBit ==
  ASSUME NEW n \in Nat
  PROVE  /\ n \div BITS_PER_LONG \in Nat /\ n % BITS_PER_LONG \in 0 .. BITS_PER_LONG - 1
         /\ n = (n \div BITS_PER_LONG) * BITS_PER_LONG + (n % BITS_PER_LONG)
BY BitmapBits

LEMMA BitOfWord ==
  ASSUME NEW w \in Nat, NEW j \in 0 .. BITS_PER_LONG - 1
  PROVE  /\ w * BITS_PER_LONG + j \in Nat
         /\ (w * BITS_PER_LONG + j) \div BITS_PER_LONG = w
         /\ (w * BITS_PER_LONG + j) % BITS_PER_LONG = j
BY BitmapBits

\* Offsets are in the order of their words, then of their bits.
LEMMA OffsetsInOrder ==
  ASSUME NEW v \in Nat, NEW i \in 0 .. BITS_PER_LONG - 1,
         NEW w \in Nat, NEW j \in 0 .. BITS_PER_LONG - 1
  PROVE  v * BITS_PER_LONG + i < w * BITS_PER_LONG + j <=> v < w \/ (v = w /\ i < j)
<1> DEFINE B == BITS_PER_LONG
<1>1. B \in Nat /\ B >= 1
  BY BitmapBits
<1> HIDE DEF B
<1>2. \A x, y \in Nat : \A k, l \in 0 .. B - 1 : x < y => x * B + k < y * B + l
  <2> SUFFICES ASSUME NEW x \in Nat, NEW y \in Nat, NEW k \in 0 .. B - 1, NEW l \in 0 .. B - 1, x < y
               PROVE  x * B + k < y * B + l
    OBVIOUS
  <2> DEFINE d == y - x - 1
  <2>1. d \in Nat /\ y = (x + 1) + d
    OBVIOUS
  <2> HIDE DEF d
  <2>2. y * B = (x * B + B) + d * B /\ d * B \in Nat /\ x * B \in Nat
    BY <1>1, <2>1
  <2> QED
    BY <1>1, <2>2
<1>3. v \in Nat /\ w \in Nat /\ i \in 0 .. B - 1 /\ j \in 0 .. B - 1
  BY DEF B
<1>4. v * B + i < w * B + j <=> v < w \/ (v = w /\ i < j)
  <2>0. v * B \in Nat /\ w * B \in Nat
    BY <1>1, <1>3
  <2>1. CASE v < w
    BY <1>2, <1>3, <2>1
  <2>2. CASE v = w
    BY <1>1, <1>3, <2>0, <2>2
  <2>3. CASE w < v
    <3>1. w * B + j < v * B + i
      BY <1>2, <1>3, <2>3
    <3> QED
      BY <1>1, <1>3, <2>0, <2>3, <3>1
  <2> QED
    BY <1>3, <2>1, <2>2, <2>3
<1> QED
  BY <1>4 DEF B

\* The offsets below n and the words they are in.
LEMMA OffsetsBelow ==
  ASSUME NEW n \in Nat \ {0}
  PROVE  /\ \A w \in Nat : \A j \in 0 .. BITS_PER_LONG - 1 :
              w * BITS_PER_LONG + j < n <=>
                w < n \div BITS_PER_LONG \/ (w = n \div BITS_PER_LONG /\ j < n % BITS_PER_LONG)
         /\ n <= BITS_PER_LONG <=> n \div BITS_PER_LONG = 0 \/ (n \div BITS_PER_LONG = 1 /\ n % BITS_PER_LONG = 0)
         /\ n \div BITS_PER_LONG = 0 => n % BITS_PER_LONG # 0
<1> DEFINE W == n \div BITS_PER_LONG
           J == n % BITS_PER_LONG
<1>1. W \in Nat /\ J \in 0 .. BITS_PER_LONG - 1 /\ n = W * BITS_PER_LONG + J
  BY WordAndBit
<1>0. BITS_PER_LONG \in Nat /\ BITS_PER_LONG >= 1
  BY BitmapBits
<1> HIDE DEF W, J
<1>2. \A w \in Nat : \A j \in 0 .. BITS_PER_LONG - 1 :
        w * BITS_PER_LONG + j < n <=> w < W \/ (w = W /\ j < J)
  BY <1>1, OffsetsInOrder
<1>3. n <= BITS_PER_LONG <=> W = 0 \/ (W = 1 /\ J = 0)
  <2>0. 1 \in Nat /\ 0 \in 0 .. BITS_PER_LONG - 1 /\ 1 * BITS_PER_LONG + 0 = BITS_PER_LONG
    BY <1>0
  <2>1. BITS_PER_LONG < n <=> 1 < W \/ (1 = W /\ 0 < J)
    BY <1>2, <2>0
  <2> QED
    BY <1>0, <1>1, <2>1
<1>4. W = 0 => J # 0
  BY <1>0, <1>1
<1> QED
  BY <1>2, <1>3, <1>4 DEF W, J

\* How many words hold n bits.
LEMMA WordsHold ==
  ASSUME OneLong, NEW n \in Nat \ {0}
  PROVE  BITS_TO_LONGS(n) =
           IF n % BITS_PER_LONG = 0 THEN n \div BITS_PER_LONG ELSE n \div BITS_PER_LONG + 1
<1> DEFINE W == n \div BITS_PER_LONG
           J == n % BITS_PER_LONG
<1>1. W \in Nat /\ J \in 0 .. BITS_PER_LONG - 1 /\ n = W * BITS_PER_LONG + J
  BY WordAndBit
<1>0. BITS_PER_LONG \in Nat /\ BITS_PER_LONG >= 1
  BY BitmapBits
<1>2. BITS_TO_LONGS(n) = (n + BITS_PER_LONG - 1) \div BITS_PER_LONG
  BY DEF OneLong, BITS_TO_LONGS
<1> HIDE DEF W, J
<1>3. CASE J = 0
  <2>1. n + BITS_PER_LONG - 1 = W * BITS_PER_LONG + (BITS_PER_LONG - 1) /\ BITS_PER_LONG - 1 \in 0 .. BITS_PER_LONG - 1
    BY <1>0, <1>1, <1>3
  <2>2. (n + BITS_PER_LONG - 1) \div BITS_PER_LONG = W
    BY <1>1, <2>1, BitOfWord
  <2> QED
    BY <1>2, <1>3, <2>2 DEF W, J
<1>4. CASE J # 0
  <2>1. n + BITS_PER_LONG - 1 = (W + 1) * BITS_PER_LONG + (J - 1) /\ J - 1 \in 0 .. BITS_PER_LONG - 1
    BY <1>0, <1>1, <1>4
  <2>2. (n + BITS_PER_LONG - 1) \div BITS_PER_LONG = W + 1
    BY <1>1, <2>1, BitOfWord
  <2> QED
    BY <1>2, <1>4, <2>2 DEF W, J
<1> QED
  BY <1>3, <1>4

\* A bit of a word as an offset; the words that the bitmaps fill, and the bits
\* of a last word that they fill in part.
OffsetOf(w, j) == w * BITS_PER_LONG + j
FullWords == nbits \div BITS_PER_LONG
LastBits == nbits % BITS_PER_LONG

\* How the bitmaps lie in their words.
LEMMA BitmapLayout ==
  ASSUME OneLong, nbits \in Nat \ {0}
  PROVE  /\ FullWords \in Nat /\ LastBits \in 0 .. BITS_PER_LONG - 1
         /\ Words = IF LastBits = 0 THEN 0 .. FullWords - 1 ELSE 0 .. FullWords
         /\ BITS_TO_LONGS(nbits) = IF LastBits = 0 THEN FullWords ELSE FullWords + 1
         /\ 0 \in Words
         /\ Long = 0 .. BITS_PER_LONG - 1
         /\ nbits <= BITS_PER_LONG <=> FullWords = 0 \/ (FullWords = 1 /\ LastBits = 0)
         /\ FullWords = 0 => LastBits # 0
         /\ \A o \in 0 .. nbits - 1 :
              /\ o \div BITS_PER_LONG \in Words /\ o % BITS_PER_LONG \in Long
              /\ o = OffsetOf(o \div BITS_PER_LONG, o % BITS_PER_LONG)
         /\ \A w \in Words : \A j \in Long :
              /\ OffsetOf(w, j) \in Nat
              /\ OffsetOf(w, j) \div BITS_PER_LONG = w /\ OffsetOf(w, j) % BITS_PER_LONG = j
              /\ OffsetOf(w, j) < nbits <=> w < FullWords \/ (w = FullWords /\ j < LastBits)
<1>1. FullWords \in Nat /\ LastBits \in 0 .. BITS_PER_LONG - 1
  BY WordAndBit DEF FullWords, LastBits
<1>2. BITS_TO_LONGS(nbits) = IF LastBits = 0 THEN FullWords ELSE FullWords + 1
  BY WordsHold DEF FullWords, LastBits
<1>3. Words = IF LastBits = 0 THEN 0 .. FullWords - 1 ELSE 0 .. FullWords
  BY <1>1, <1>2 DEF Words
<1>4. Long = 0 .. BITS_PER_LONG - 1
  BY DEF Long, OneLong
<1>5. /\ nbits <= BITS_PER_LONG <=> FullWords = 0 \/ (FullWords = 1 /\ LastBits = 0)
      /\ FullWords = 0 => LastBits # 0
      /\ \A w \in Nat : \A j \in 0 .. BITS_PER_LONG - 1 :
           OffsetOf(w, j) < nbits <=> w < FullWords \/ (w = FullWords /\ j < LastBits)
  BY OffsetsBelow DEF FullWords, LastBits, OffsetOf
<1>6. 0 \in Words
  BY <1>1, <1>3, <1>5
<1>7. Words \subseteq Nat
  BY <1>1, <1>3
<1>8. ASSUME NEW o \in 0 .. nbits - 1
      PROVE  /\ o \div BITS_PER_LONG \in Words /\ o % BITS_PER_LONG \in Long
             /\ o = OffsetOf(o \div BITS_PER_LONG, o % BITS_PER_LONG)
  <2>1. o \in Nat /\ o < nbits
    OBVIOUS
  <2> DEFINE w == o \div BITS_PER_LONG
             j == o % BITS_PER_LONG
  <2>2. w \in Nat /\ j \in 0 .. BITS_PER_LONG - 1 /\ o = OffsetOf(w, j)
    BY <2>1, WordAndBit DEF OffsetOf
  <2> HIDE DEF w, j
  <2>3. w < FullWords \/ (w = FullWords /\ j < LastBits)
    BY <1>5, <2>1, <2>2
  <2>4. w \in Words
    BY <1>1, <1>3, <2>2, <2>3
  <2> QED
    BY <1>4, <2>2, <2>4 DEF w, j
<1>9. ASSUME NEW w \in Words, NEW j \in Long
      PROVE  /\ OffsetOf(w, j) \in Nat
             /\ OffsetOf(w, j) \div BITS_PER_LONG = w /\ OffsetOf(w, j) % BITS_PER_LONG = j
             /\ OffsetOf(w, j) < nbits <=> w < FullWords \/ (w = FullWords /\ j < LastBits)
  <2>1. w \in Nat /\ j \in 0 .. BITS_PER_LONG - 1
    BY <1>4, <1>7
  <2>2. /\ OffsetOf(w, j) \in Nat
        /\ OffsetOf(w, j) \div BITS_PER_LONG = w /\ OffsetOf(w, j) % BITS_PER_LONG = j
    BY <2>1, BitOfWord DEF OffsetOf
  <2> QED
    BY <1>5, <2>1, <2>2
<1> QED
  BY <1>1, <1>2, <1>3, <1>4, <1>5, <1>6, <1>8, <1>9

\* map is the set of offsets ones.
Holds(map, ones) ==
  /\ map \in [Words -> SUBSET Long] /\ ones \in SUBSET (0 .. nbits - 1)
  /\ \A w \in Words : \A j \in Long :
       OffsetOf(w, j) < nbits => (j \in map[w] <=> OffsetOf(w, j) \in ones)

\* Reading a bitmap.
LEMMA HoldsReads ==
  ASSUME OneLong, nbits \in Nat \ {0}, NEW map, NEW ones, Holds(map, ones),
         NEW o \in 0 .. nbits - 1
  PROVE  bitmap_get(map, o) <=> o \in ones
<1> DEFINE w == o \div BITS_PER_LONG
           j == o % BITS_PER_LONG
<1>1. w \in Words /\ j \in Long /\ o = OffsetOf(w, j) /\ o < nbits
  BY BitmapLayout
<1>2. bitmap_get(map, o) <=> j \in map[w]
  BY DEF bitmap_get
<1> HIDE DEF w, j
<1> QED
  BY <1>1, <1>2 DEF Holds

\* The bits of a word that belong to a bitmap.
CountedBits(w) == {j \in Long : OffsetOf(w, j) < nbits}

LEMMA CountedBitsAre ==
  ASSUME OneLong, nbits \in Nat \ {0}
  PROVE  /\ \A w \in Words : w < FullWords => CountedBits(w) = Long
         /\ \A w \in Words : ~ (w < FullWords) => w = FullWords /\ LastBits # 0 /\ CountedBits(w) = LastWordMask(nbits)
         /\ LastBits # 0 => FullWords \in Words
         /\ 0 .. FullWords - 1 \subseteq Words
         /\ nbits <= BITS_PER_LONG => Words = {0} /\ CountedBits(0) = LastWordMask(nbits)
         /\ LastWordMask(nbits) = (IF LastBits = 0 THEN Long ELSE 0 .. LastBits - 1)
<1>1. /\ FullWords \in Nat /\ LastBits \in 0 .. BITS_PER_LONG - 1
      /\ Words = IF LastBits = 0 THEN 0 .. FullWords - 1 ELSE 0 .. FullWords
      /\ Long = 0 .. BITS_PER_LONG - 1
      /\ nbits <= BITS_PER_LONG <=> FullWords = 0 \/ (FullWords = 1 /\ LastBits = 0)
      /\ FullWords = 0 => LastBits # 0
  BY BitmapLayout
<1>2. \A w \in Words : CountedBits(w) = {j \in Long : w < FullWords \/ (w = FullWords /\ j < LastBits)}
  BY BitmapLayout DEF CountedBits
<1>3. LastWordMask(nbits) = (IF LastBits = 0 THEN Long ELSE 0 .. LastBits - 1)
  BY DEF LastWordMask, LastBits
<1>4. ASSUME NEW w \in Words, w < FullWords PROVE CountedBits(w) = Long
  BY <1>2, <1>4
<1>5. ASSUME NEW w \in Words, ~ (w < FullWords)
      PROVE  w = FullWords /\ LastBits # 0 /\ CountedBits(w) = LastWordMask(nbits)
  <2>1. w = FullWords /\ LastBits # 0
    BY <1>1, <1>5
  <2>2. CountedBits(w) = {j \in Long : j < LastBits}
    BY <1>2, <1>5, <2>1
  <2>3. {j \in Long : j < LastBits} = 0 .. LastBits - 1
    <3>1. ASSUME NEW j \in Long, j < LastBits PROVE j \in 0 .. LastBits - 1
      BY <1>1, <3>1
    <3>2. ASSUME NEW j \in 0 .. LastBits - 1 PROVE j \in Long /\ j < LastBits
      <4>1. j \in 0 .. BITS_PER_LONG - 1 /\ j < LastBits
        BY BitmapBits, <1>1
      <4> QED
        BY <1>1, <4>1
    <3> QED
      BY <3>1, <3>2
  <2> QED
    BY <1>3, <2>1, <2>2, <2>3
<1>6. (LastBits # 0 => FullWords \in Words) /\ 0 .. FullWords - 1 \subseteq Words
  BY <1>1
<1>7. ASSUME nbits <= BITS_PER_LONG PROVE Words = {0} /\ CountedBits(0) = LastWordMask(nbits)
  <2>1. CASE FullWords = 0
    BY <1>1, <1>5, <2>1
  <2>2. CASE FullWords = 1 /\ LastBits = 0
    BY <1>1, <1>3, <1>4, <2>2
  <2> QED
    BY <1>1, <1>7, <2>1, <2>2
<1> QED
  BY <1>3, <1>4, <1>5, <1>6, <1>7

\* What a bitmap that holds no offset, or all of them, has in its words.
LEMMA HoldsNoneOrAll ==
  ASSUME OneLong, nbits \in Nat \ {0}, NEW map, NEW ones, Holds(map, ones)
  PROVE  /\ ones = {} <=> \A w \in Words : map[w] \cap CountedBits(w) = {}
         /\ ones = 0 .. nbits - 1 <=> \A w \in Words : CountedBits(w) \subseteq map[w]
<1>1. \A o \in 0 .. nbits - 1 : \E w \in Words : \E j \in CountedBits(w) : o = OffsetOf(w, j)
  BY BitmapLayout DEF CountedBits
<1>2. \A w \in Words : \A j \in CountedBits(w) : OffsetOf(w, j) \in 0 .. nbits - 1
  BY BitmapLayout DEF CountedBits
<1>3. \A w \in Words : \A j \in CountedBits(w) : j \in map[w] <=> OffsetOf(w, j) \in ones
  BY DEF Holds, CountedBits
<1>4. ones \subseteq 0 .. nbits - 1
  BY DEF Holds
<1>5. ones = {} <=> \A w \in Words : map[w] \cap CountedBits(w) = {}
  BY <1>1, <1>2, <1>3, <1>4
<1>6. ones = 0 .. nbits - 1 <=> \A w \in Words : CountedBits(w) \subseteq map[w]
  BY ZenonT(60), <1>1, <1>2, <1>3, <1>4
<1> QED
  BY <1>5, <1>6

\* The test of none.
LEMMA HoldsEmpty ==
  ASSUME OneLong, nbits \in Nat \ {0}, NEW map, NEW ones, Holds(map, ones)
  PROVE  bitmap_empty(map) <=> ones = {}
<1>1. \A w \in Words : map[w] \subseteq Long
  BY DEF Holds
<1>2. CASE nbits <= BITS_PER_LONG
  <2>1. bitmap_empty(map) <=> map[0] \cap CountedBits(0) = {}
    BY <1>2, CountedBitsAre DEF bitmap_empty
  <2> QED
    BY <1>2, <2>1, CountedBitsAre, HoldsNoneOrAll
<1>3. CASE ~ (nbits <= BITS_PER_LONG)
  <2>1. bitmap_empty(map) <=>
          /\ \A k \in 0 .. FullWords - 1 : map[k] = {}
          /\ LastBits # 0 => map[FullWords] \cap LastWordMask(nbits) = {}
    BY <1>3 DEF bitmap_empty, FullWords, LastBits
  <2>2. ASSUME NEW k \in 0 .. FullWords - 1
        PROVE  k \in Words /\ k < FullWords /\ CountedBits(k) = Long
    <3>1. FullWords \in Nat
      BY BitmapLayout
    <3>2. k < FullWords
      BY <3>1
    <3>3. k \in Words
      BY CountedBitsAre
    <3> QED
      BY <3>2, <3>3, CountedBitsAre
  <2>3. \A k \in 0 .. FullWords - 1 : map[k] = {} <=> map[k] \cap CountedBits(k) = {}
    BY <1>1, <2>2
  <2>4. \A w \in Words : w \in 0 .. FullWords - 1 \/ (w = FullWords /\ LastBits # 0)
    BY BitmapLayout
  <2>5. LastBits # 0 => FullWords \in Words /\ CountedBits(FullWords) = LastWordMask(nbits)
    BY BitmapLayout, CountedBitsAre
  <2>6. bitmap_empty(map) <=> \A w \in Words : map[w] \cap CountedBits(w) = {}
    BY <2>1, <2>2, <2>3, <2>4, <2>5
  <2> QED
    BY <2>6, HoldsNoneOrAll
<1> QED
  BY <1>2, <1>3

\* The test of all.
LEMMA HoldsFull ==
  ASSUME OneLong, nbits \in Nat \ {0}, NEW map, NEW ones, Holds(map, ones)
  PROVE  bitmap_full(map) <=> ones = 0 .. nbits - 1
<1>1. \A w \in Words : map[w] \subseteq Long
  BY DEF Holds
<1>2. CASE nbits <= BITS_PER_LONG
  <2>1. Words = {0} /\ CountedBits(0) = LastWordMask(nbits) /\ CountedBits(0) \subseteq Long
    BY <1>2, CountedBitsAre DEF CountedBits
  <2>2. bitmap_full(map) <=> (Long \ map[0]) \cap CountedBits(0) = {}
    BY <1>2, <2>1 DEF bitmap_full
  <2>3. bitmap_full(map) <=> CountedBits(0) \subseteq map[0]
    BY <2>1, <2>2
  <2> QED
    BY <2>1, <2>3, HoldsNoneOrAll
<1>3. CASE ~ (nbits <= BITS_PER_LONG)
  <2>1. bitmap_full(map) <=>
          /\ \A k \in 0 .. FullWords - 1 : map[k] = Long
          /\ LastBits # 0 => LastWordMask(nbits) \subseteq map[FullWords]
    BY <1>3 DEF bitmap_full, FullWords, LastBits
  <2>2. ASSUME NEW k \in 0 .. FullWords - 1
        PROVE  k \in Words /\ k < FullWords /\ CountedBits(k) = Long
    <3>1. FullWords \in Nat
      BY BitmapLayout
    <3>2. k < FullWords
      BY <3>1
    <3>3. k \in Words
      BY CountedBitsAre
    <3> QED
      BY <3>2, <3>3, CountedBitsAre
  <2>3. \A k \in 0 .. FullWords - 1 : map[k] = Long <=> CountedBits(k) \subseteq map[k]
    BY <1>1, <2>2
  <2>4. \A w \in Words : w \in 0 .. FullWords - 1 \/ (w = FullWords /\ LastBits # 0)
    BY BitmapLayout
  <2>5. LastBits # 0 => FullWords \in Words /\ CountedBits(FullWords) = LastWordMask(nbits)
    BY BitmapLayout, CountedBitsAre
  <2>6. bitmap_full(map) <=> \A w \in Words : CountedBits(w) \subseteq map[w]
    BY <2>1, <2>2, <2>3, <2>4, <2>5
  <2> QED
    BY <2>6, HoldsNoneOrAll
<1> QED
  BY <1>2, <1>3

\* The first offset that is free.
LEMMA HoldsFree ==
  ASSUME OneLong, nbits \in Nat \ {0}, NEW map, NEW ones, Holds(map, ones)
  PROVE  bitmap_find_empty(map) = IF ones = 0 .. nbits - 1 THEN -1 ELSE Min((0 .. nbits - 1) \ ones)
<1> DEFINE open == {v \in Words : map[v] # Long}
           w == Min(open)
           zeros == {i \in 0 .. BITS_PER_LONG - 1 : i \notin map[w]}
           j == Min(zeros)
<1>1. bitmap_find_empty(map) = IF open = {} \/ zeros = {} \/ OffsetOf(w, j) >= nbits THEN -1 ELSE OffsetOf(w, j)
  BY DEF bitmap_find_empty, OffsetOf
<1>2. /\ Words \subseteq Nat /\ Long = 0 .. BITS_PER_LONG - 1
      /\ \A v \in Words : map[v] \subseteq Long
      /\ \A v \in Words : CountedBits(v) \subseteq Long
  BY BitmapLayout DEF Holds, CountedBits
<1>3. CASE open = {}
  <2>1. \A v \in Words : map[v] = Long
    BY <1>3
  <2>2. ones = 0 .. nbits - 1
    BY <1>2, <2>1, HoldsNoneOrAll
  <2> QED
    BY <1>1, <1>3, <2>2
<1>4. CASE open # {}
  <2>1. w \in Words /\ map[w] # Long /\ \A v \in Words : v < w => map[v] = Long
    <3>1. open \subseteq Nat
      BY <1>2
    <3>2. w \in open /\ \A v \in open : w <= v
      <4> HIDE DEF open
      <4> QED
        BY <1>4, <3>1, LeastElement
    <3>3. \A v \in Words : v < w => v \notin open
      <4> SUFFICES ASSUME NEW v \in Words, v < w, v \in open PROVE FALSE
        OBVIOUS
      <4>1. v \in Nat /\ w \in Nat /\ w <= v
        BY <3>1, <3>2
      <4> QED
        BY <4>1
    <3> QED
      BY <3>2, <3>3
  <2> HIDE DEF w
  <2>2. zeros # {} /\ zeros \subseteq Nat
    <3>1. PICK i \in Long : i \notin map[w]
      BY <1>2, <2>1
    <3>2. i \in zeros
      BY <1>2, <3>1
    <3> QED
      BY <3>2
  <2>3. j \in zeros /\ \A i \in zeros : j <= i
    <3> HIDE DEF zeros
    <3> QED
      BY <2>2, LeastElement
  <2>4. j \in Long /\ j \notin map[w] /\ \A i \in Long : i < j => i \in map[w]
    <3> SUFFICES ASSUME NEW i \in Long, i < j PROVE i \in map[w]
      BY <1>2, <2>3
    <3>1. i \in Nat /\ j \in Nat
      BY <1>2, <2>2, <2>3
    <3>2. i \notin zeros
      BY <2>3, <3>1
    <3> QED
      BY <1>2, <3>2
  <2> DEFINE free == OffsetOf(w, j)
  <2>5. /\ free \in Nat
        /\ bitmap_find_empty(map) = IF free >= nbits THEN -1 ELSE free
    <3>1. free \in Nat
      BY <2>1, <2>4, BitmapLayout
    <3> QED
      BY <1>1, <1>4, <2>2, <3>1
  <2> HIDE DEF zeros, j
  <2>6. ASSUME NEW o \in 0 .. nbits - 1, o < free PROVE o \in ones
    <3>1. PICK v \in Words, i \in Long : o = OffsetOf(v, i)
      BY BitmapLayout
    <3>2. v < w \/ (v = w /\ i < j)
      <4>1. v \in Nat /\ w \in Nat /\ i \in 0 .. BITS_PER_LONG - 1 /\ j \in 0 .. BITS_PER_LONG - 1
        BY <1>2, <2>1, <2>4
      <4> QED
        BY <2>6, <3>1, <4>1, OffsetsInOrder DEF OffsetOf
    <3>3. i \in map[v]
      BY <2>1, <2>4, <3>2
    <3>4. o < nbits
      OBVIOUS
    <3> HIDE DEF free
    <3> QED
      BY <3>1, <3>3, <3>4 DEF Holds
  <2>7. free < nbits => free \notin ones
    BY <2>1, <2>4 DEF Holds
  <2>8. ones \subseteq 0 .. nbits - 1
    BY DEF Holds
  <2> HIDE DEF free
  <2>9. CASE free >= nbits
    <3>1. \A o \in 0 .. nbits - 1 : o < free
      BY <2>5, <2>9
    <3>2. ones = 0 .. nbits - 1
      BY <2>6, <2>8, <3>1
    <3> QED
      BY <2>5, <2>9, <3>2
  <2>10. CASE ~ (free >= nbits)
    <3> DEFINE D == (0 .. nbits - 1) \ ones
    <3>1. free \in D /\ D \subseteq Nat
      BY <2>5, <2>7, <2>10
    <3>2. \A o \in D : ~ (o < free)
      BY <2>6
    <3> HIDE DEF D
    <3>3. Min(D) \in D /\ Min(D) <= free
      BY <3>1, LeastElement
    <3>4. Min(D) = free
      <4>1. ~ (Min(D) < free) /\ Min(D) \in Nat
        BY <3>1, <3>2, <3>3
      <4> QED
        BY <2>5, <3>3, <4>1
    <3>5. ones # 0 .. nbits - 1
      BY <3>1 DEF D
    <3> QED
      BY <2>5, <2>10, <3>4, <3>5 DEF D
  <2> QED
    BY <2>9, <2>10
<1> QED
  BY <1>3, <1>4

\* What the calls make of words that hold offsets.
LEMMA HoldsZeroed ==
  ASSUME OneLong, nbits \in Nat \ {0}, NEW map \in [Words -> SUBSET Long]
  PROVE  Holds(Zeroed(map), {})
<1>1. \A w \in Words : Zeroed(map)[w] = {}
  BY CountedBitsAre DEF Zeroed
<1>2. Zeroed(map) \in [Words -> SUBSET Long]
  BY CountedBitsAre DEF Zeroed
<1> QED
  BY <1>1, <1>2 DEF Holds

LEMMA HoldsFilled ==
  ASSUME OneLong, nbits \in Nat \ {0}, NEW map
  PROVE  Holds(Filled(map), 0 .. nbits - 1)
<1>1. LastWordMask(nbits) \subseteq Long
  <2>1. LastBits \in 0 .. BITS_PER_LONG - 1 /\ Long = 0 .. BITS_PER_LONG - 1
    BY BitmapLayout
  <2>2. 0 .. LastBits - 1 \subseteq 0 .. BITS_PER_LONG - 1
    BY <2>1, BitmapBits
  <2> QED
    BY <2>1, <2>2, CountedBitsAre
<1>2. Filled(map) \in [Words -> SUBSET Long]
  BY <1>1 DEF Filled
<1>3. ASSUME NEW w \in Words PROVE CountedBits(w) \subseteq Filled(map)[w]
  <2>1. Filled(map)[w] = IF w < BITS_TO_LONGS(nbits) - 1 THEN Long ELSE LastWordMask(nbits)
    BY DEF Filled
  <2>2. CountedBits(w) \subseteq Long
    BY DEF CountedBits
  <2>3. CASE w < BITS_TO_LONGS(nbits) - 1
    BY <2>1, <2>2, <2>3
  <2>4. CASE ~ (w < BITS_TO_LONGS(nbits) - 1)
    <3>1. Filled(map)[w] = LastWordMask(nbits)
      BY <2>1, <2>4
    <3>2. CASE w < FullWords
      <4>1. LastBits = 0
        BY <2>4, <3>2, BitmapLayout
      <4> QED
        BY <2>2, <3>1, <4>1, CountedBitsAre
    <3>3. CASE ~ (w < FullWords)
      BY <3>1, <3>3, CountedBitsAre
    <3> QED
      BY <3>2, <3>3
  <2> QED
    BY <2>3, <2>4
<1>4. \A w \in Words : \A j \in Long :
        OffsetOf(w, j) < nbits => j \in Filled(map)[w] /\ OffsetOf(w, j) \in 0 .. nbits - 1
  <2> SUFFICES ASSUME NEW w \in Words, NEW j \in Long, OffsetOf(w, j) < nbits
               PROVE  j \in Filled(map)[w] /\ OffsetOf(w, j) \in 0 .. nbits - 1
    OBVIOUS
  <2>1. OffsetOf(w, j) \in Nat
    BY BitmapLayout
  <2>2. OffsetOf(w, j) \in 0 .. nbits - 1
    BY <2>1
  <2> QED
    BY <1>3, <2>2 DEF CountedBits
<1> QED
  BY <1>2, <1>4 DEF Holds

\* A copy, and a text that is read back, are the words they were made from.
LEMMA CopiesAre ==
  ASSUME OneLong, nbits \in Nat \ {0}, NEW map \in [Words -> SUBSET Long],
         NEW source \in [Words -> SUBSET Long]
  PROVE  CopiedTo(map, source) = source /\ bitmap_str2map(map, bitmap_map2str(source)) = source
<1> DEFINE str == bitmap_map2str(source)
<1>1. CASE nbits <= BITS_PER_LONG
  <2>1. Words = {0} /\ BITS_TO_LONGS(nbits) = 1
    BY <1>1, CountedBitsAre, BitmapLayout
  <2>2. CopiedTo(map, source) = source
    BY <1>1, <2>1 DEF CopiedTo
  <2>3. str = <<source[0]>>
    BY <1>1 DEF bitmap_map2str
  <2>4. bitmap_str2map(map, str) = [w \in Words |-> str[1 - w]]
    BY <2>1, <2>3 DEF bitmap_str2map
  <2>5. \A w \in Words : str[1 - w] = source[w]
    BY <2>1, <2>3
  <2> QED
    BY <2>2, <2>4, <2>5
<1>2. CASE ~ (nbits <= BITS_PER_LONG)
  <2> DEFINE L == BITS_TO_LONGS(nbits)
  <2>1. L \in Nat /\ Words = 0 .. L - 1
    BY BitmapLayout DEF Words
  <2>2. CopiedTo(map, source) = source
    BY <1>2 DEF CopiedTo
  <2>3. str = [i \in 1 .. L |-> source[L - i]]
    BY <1>2 DEF bitmap_map2str
  <2> HIDE DEF L
  <2>4. Len(str) = L
    BY <2>1, <2>3
  <2>5. bitmap_str2map(map, str) = [w \in Words |-> str[L - w]]
    BY <2>4 DEF bitmap_str2map, L
  <2>6. ASSUME NEW w \in Words PROVE str[L - w] = source[w]
    <3>1. L - w \in 1 .. L /\ L - (L - w) = w
      BY <2>1
    <3> HIDE DEF str
    <3> QED
      BY <2>3, <3>1
  <2>7. [w \in Words |-> source[w]] = source
    OBVIOUS
  <2> HIDE DEF str
  <2>8. [w \in Words |-> str[L - w]] = [w \in Words |-> source[w]]
    BY <2>6
  <2> QED
    BY <2>2, <2>5, <2>7, <2>8 DEF str
<1> QED
  BY <1>1, <1>2

\* A bit is made one or zero.
LEMMA HoldsWith ==
  ASSUME OneLong, nbits \in Nat \ {0}, NEW map, NEW ones, Holds(map, ones),
         NEW offset \in 0 .. nbits - 1
  PROVE  /\ Holds(With(map, offset), ones \cup {offset})
         /\ Holds(Without(map, offset), ones \ {offset})
<1> DEFINE v == offset \div BITS_PER_LONG
           i == offset % BITS_PER_LONG
<1>1. v \in Words /\ i \in Long /\ offset = OffsetOf(v, i)
  BY BitmapLayout
<1>2. /\ With(map, offset) = [map EXCEPT ![v] = @ \cup {i}]
      /\ Without(map, offset) = [map EXCEPT ![v] = @ \ {i}]
  BY DEF With, Without
<1>3. \A w \in Words : \A j \in Long : OffsetOf(w, j) = offset <=> w = v /\ j = i
  <2> SUFFICES ASSUME NEW w \in Words, NEW j \in Long PROVE OffsetOf(w, j) = offset <=> w = v /\ j = i
    OBVIOUS
  <2>1. OffsetOf(w, j) \div BITS_PER_LONG = w /\ OffsetOf(w, j) % BITS_PER_LONG = j
    BY BitmapLayout
  <2>2. OffsetOf(w, j) = offset => w = v /\ j = i
    BY <2>1
  <2> HIDE DEF v, i
  <2> QED
    BY <1>1, <2>2
<1> HIDE DEF v, i
<1>4. /\ map \in [Words -> SUBSET Long] /\ ones \in SUBSET (0 .. nbits - 1)
      /\ \A w \in Words : \A j \in Long :
           OffsetOf(w, j) < nbits => (j \in map[w] <=> OffsetOf(w, j) \in ones)
  BY DEF Holds
<1>5. /\ With(map, offset) \in [Words -> SUBSET Long] /\ Without(map, offset) \in [Words -> SUBSET Long]
      /\ ones \cup {offset} \in SUBSET (0 .. nbits - 1) /\ ones \ {offset} \in SUBSET (0 .. nbits - 1)
  <2>1. With(map, offset) \in [Words -> SUBSET Long]
    BY <1>1, <1>2, <1>4
  <2>2. Without(map, offset) \in [Words -> SUBSET Long]
    BY <1>1, <1>2, <1>4
  <2>3. ones \cup {offset} \in SUBSET (0 .. nbits - 1) /\ ones \ {offset} \in SUBSET (0 .. nbits - 1)
    BY <1>4
  <2> QED
    BY <2>1, <2>2, <2>3
<1>6. ASSUME NEW w \in Words, NEW j \in Long
      PROVE  /\ j \in With(map, offset)[w] <=> j \in map[w] \/ (w = v /\ j = i)
             /\ j \in Without(map, offset)[w] <=> j \in map[w] /\ ~ (w = v /\ j = i)
  BY <1>1, <1>2, <1>4
<1>7. ASSUME NEW w \in Words, NEW j \in Long, OffsetOf(w, j) < nbits
      PROVE  /\ j \in With(map, offset)[w] <=> OffsetOf(w, j) \in ones \cup {offset}
             /\ j \in Without(map, offset)[w] <=> OffsetOf(w, j) \in ones \ {offset}
  BY <1>3, <1>4, <1>6, <1>7
<1> QED
  BY <1>5, <1>7 DEF Holds

\* Each bitmap holds the offsets that its calls have made one.
BitmapInv ==
  /\ nbits \in Nat \ {0}
  /\ bitmap \in [1 .. 2 -> [Words -> SUBSET Long]] /\ bits \in [1 .. 2 -> SUBSET (0 .. nbits - 1)]
  /\ \A m \in 1 .. 2 : Holds(bitmap[m], bits[m])

LEMMA PutHolds ==
  ASSUME BitmapInv, NEW m \in 1 .. 2, NEW map, NEW ones, Holds(map, ones), Put(m, map, ones)
  PROVE  BitmapInv'
<1>1. /\ nbits' = nbits /\ bitmap' = [bitmap EXCEPT ![m] = map] /\ bits' = [bits EXCEPT ![m] = ones]
  BY DEF Put
<1>2. map \in [Words -> SUBSET Long] /\ ones \in SUBSET (0 .. nbits - 1)
  BY DEF Holds
<1>3. Words' = Words
  BY <1>1 DEF Words
<1>4. bitmap' \in [1 .. 2 -> [Words -> SUBSET Long]] /\ bits' \in [1 .. 2 -> SUBSET (0 .. nbits - 1)]
  BY <1>1, <1>2 DEF BitmapInv
<1>5. \A l \in 1 .. 2 : Holds(bitmap'[l], bits'[l])
  BY <1>1 DEF BitmapInv
<1>6. \A l \in 1 .. 2 : Holds(bitmap[l], bits[l])'
  BY <1>1, <1>3, <1>5 DEF Holds
<1> QED
  BY <1>1, <1>3, <1>4, <1>6 DEF BitmapInv

LEMMA BitmapStep ==
  ASSUME OneLong, BitmapInv, [BitmapNext]_bitmapVars
  PROVE  BitmapInv'
<1>1. nbits \in Nat \ {0} /\ \A m \in 1 .. 2 : bitmap[m] \in [Words -> SUBSET Long] /\ Holds(bitmap[m], bits[m])
  BY DEF BitmapInv
<1>2. ASSUME NEW m \in 1 .. 2, bitmap_zero(m) PROVE BitmapInv'
  BY <1>1, <1>2, HoldsZeroed, PutHolds DEF bitmap_zero
<1>3. ASSUME NEW m \in 1 .. 2, bitmap_fill(m) PROVE BitmapInv'
  BY <1>1, <1>3, HoldsFilled, PutHolds DEF bitmap_fill
<1>4. ASSUME NEW m \in 1 .. 2, bitmap_copy(m) \/ Restore(m) PROVE BitmapInv'
  <2>1. 3 - m \in 1 .. 2
    OBVIOUS
  <2>2. Put(m, bitmap[3 - m], bits[3 - m])
    BY <1>1, <1>4, <2>1, CopiesAre DEF bitmap_copy, Restore
  <2> QED
    BY <1>1, <2>1, <2>2, PutHolds
<1>5. ASSUME NEW m \in 1 .. 2, NEW offset \in 0 .. nbits - 1, bitmap_set(m, offset) PROVE BitmapInv'
  BY <1>1, <1>5, HoldsWith, PutHolds DEF bitmap_set
<1>6. ASSUME NEW m \in 1 .. 2, NEW offset \in 0 .. nbits - 1, bitmap_unset(m, offset) PROVE BitmapInv'
  BY <1>1, <1>6, HoldsWith, PutHolds DEF bitmap_unset
<1>7. CASE UNCHANGED bitmapVars
  BY <1>7 DEF BitmapInv, bitmapVars, Holds, Words, OffsetOf
<1> QED
  BY <1>2, <1>3, <1>4, <1>5, <1>6, <1>7 DEF BitmapNext

\* In a build whose long has the bits of the header, a bitmap of any length is
\* the set of the offsets that its calls have made one: when it is read, when
\* it is tested for none and for all, and when a free offset is looked for
\* (xbitmap.c:26-223).
THEOREM BitmapsHoldSets == OneLong => (BitmapSpec => []BitmapsAreSets)
<1> SUFFICES ASSUME OneLong PROVE BitmapSpec => []BitmapsAreSets
  OBVIOUS
<1>1. BitmapInit => BitmapInv
  <2> SUFFICES ASSUME BitmapInit PROVE BitmapInv
    OBVIOUS
  <2>1. nbits \in Nat \ {0}
    BY BitmapBits DEF BitmapInit
  <2> DEFINE map == Zeroed([w \in Words |-> Long])
  <2>2. Holds(map, {})
    BY <2>1, HoldsZeroed
  <2> HIDE DEF map
  <2>3. bitmap = [m \in 1 .. 2 |-> map] /\ bits = [m \in 1 .. 2 |-> {}]
    BY DEF BitmapInit, map
  <2>4. map \in [Words -> SUBSET Long]
    BY <2>2 DEF Holds
  <2> QED
    BY <2>1, <2>2, <2>3, <2>4 DEF BitmapInv
<1>2. BitmapInv /\ [BitmapNext]_bitmapVars => BitmapInv'
  BY BitmapStep
<1>3. BitmapInv => BitmapsAreSets
  <2> SUFFICES ASSUME BitmapInv, NEW m \in 1 .. 2
               PROVE  /\ \A offset \in 0 .. nbits - 1 : bitmap_get(bitmap[m], offset) <=> offset \in bits[m]
                      /\ bitmap_empty(bitmap[m]) <=> bits[m] = {}
                      /\ bitmap_full(bitmap[m]) <=> bits[m] = 0 .. nbits - 1
                      /\ bitmap_find_empty(bitmap[m]) =
                           (IF bits[m] = 0 .. nbits - 1 THEN -1 ELSE Min((0 .. nbits - 1) \ bits[m]))
    BY DEF BitmapsAreSets
  <2>1. nbits \in Nat \ {0} /\ Holds(bitmap[m], bits[m])
    BY DEF BitmapInv
  <2> QED
    BY <2>1, HoldsReads, HoldsEmpty, HoldsFull, HoldsFree
<1> QED
  BY <1>1, <1>2, <1>3, PTL DEF BitmapSpec

-----------------------------------------------------------------------------
(* xurl.c *)

\* What the texts that xurl_escape makes of input have in them.
Escapable(input) ==
  {Percent} \cup {input[i] : i \in DOMAIN input}
    \cup {Hex(input[i])[1] : i \in DOMAIN input} \cup {Hex(input[i])[2] : i \in DOMAIN input}

\* The states of its loop, and those that are possible after n characters: what
\* is still to come has its room, and each write so far was within it.
Escaping(C) == [ns : Seq(C), alloc : Int, newlen : Int, needed : Int]
HasRoom(C, N, n) ==
  {e \in Escaping(C) : /\ e.newlen = Len(e.ns) + (N - n) + 1 /\ e.newlen <= e.alloc
                       /\ N + 1 <= e.alloc /\ e.needed <= e.alloc}

LEMMA RoomIsKept ==
  ASSUME NEW k \in Int, NEW N \in Int, NEW n \in 1 .. N, NEW newlen \in Int, NEW alloc \in Int,
         newlen = k + (N - (n - 1)) + 1, newlen <= alloc, N + 1 <= alloc
  PROVE  /\ newlen = (k + 1) + (N - n) + 1 /\ k + 1 <= alloc
         /\ newlen + 2 = (k + 3) + (N - n) + 1 /\ k + 4 <= newlen + 2
         /\ newlen + 2 <= 2 * alloc /\ N + 1 <= 2 * alloc
OBVIOUS

LEMMA EscapedIs ==
  ASSUME NEW C, NEW e \in Escaping(C), NEW ch \in C, Hex(ch) \in Seq(C), Len(Hex(ch)) = 2, Percent \in C
  PROVE  /\ Escaped(e, ch) \in Escaping(C)
         /\ \A N \in Nat : \A n \in 1 .. N :
              e \in HasRoom(C, N, n - 1) => Escaped(e, ch) \in HasRoom(C, N, n)
<1>1. /\ e.ns \in Seq(C) /\ e.alloc \in Int /\ e.newlen \in Int /\ e.needed \in Int
      /\ e = [ns |-> e.ns, alloc |-> e.alloc, newlen |-> e.newlen, needed |-> e.needed]
  BY DEF Escaping
<1>2. PICK k \in Nat : k = Len(e.ns)
  BY <1>1
<1>3. \A ns \in Seq(C), alloc, newlen, needed \in Int :
        [ns |-> ns, alloc |-> alloc, newlen |-> newlen, needed |-> needed] \in Escaping(C)
  BY DEF Escaping
<1>4. CASE url_is_unreserved(ch)
  <2>1. Append(e.ns, ch) \in Seq(C) /\ Len(Append(e.ns, ch)) = k + 1
    BY <1>1, <1>2
  <2>2. PICK more \in Seq(C) : more = Append(e.ns, ch) /\ Len(more) = k + 1
    BY <2>1
  <2>3. Escaped(e, ch) = [e EXCEPT !.ns = more, !.needed = k + 1]
    BY <1>2, <1>4, <2>2 DEF Escaped
  <2>4. Escaped(e, ch) = [ns |-> more, alloc |-> e.alloc, newlen |-> e.newlen, needed |-> k + 1]
    BY <1>1, <2>3
  <2>5. Escaped(e, ch) \in Escaping(C)
    BY <1>1, <1>3, <2>4
  <2>6. ASSUME NEW N \in Nat, NEW n \in 1 .. N, e \in HasRoom(C, N, n - 1)
        PROVE  Escaped(e, ch) \in HasRoom(C, N, n)
    <3>1. e.newlen = k + (N - (n - 1)) + 1 /\ e.newlen <= e.alloc /\ N + 1 <= e.alloc
      BY <1>2, <2>6 DEF HasRoom
    <3>2. e.newlen = (k + 1) + (N - n) + 1 /\ k + 1 <= e.alloc
      BY <1>1, <3>1, RoomIsKept
    <3> QED
      BY <2>2, <2>4, <2>5, <3>1, <3>2 DEF HasRoom
  <2> QED
    BY <2>5, <2>6
<1>5. CASE ~ url_is_unreserved(ch)
  <2>1. <<Percent>> \in Seq(C) /\ Len(<<Percent>>) = 1
    OBVIOUS
  <2>2. PICK p \in Seq(C), h \in Seq(C) : p = <<Percent>> /\ Len(p) = 1 /\ h = Hex(ch) /\ Len(h) = 2
    BY <2>1
  <2>3. (e.ns \o p) \o h \in Seq(C) /\ Len((e.ns \o p) \o h) = k + 3
    <3>1. PICK ns : ns = e.ns \o p
      OBVIOUS
    <3>2. ns \in Seq(C) /\ Len(ns) = k + 1
      BY <1>1, <1>2, <2>2, <3>1, ConcatProperties
    <3>3. ns \o h \in Seq(C) /\ Len(ns \o h) = Len(ns) + Len(h)
      BY <2>2, <3>2, ConcatProperties
    <3>4. (e.ns \o p) \o h = ns \o h
      BY <3>1
    <3>5. Len(ns \o h) = k + 3
      BY <2>2, <3>2, <3>3
    <3> QED
      BY <3>3, <3>4, <3>5, Zenon
  <2>4. PICK more \in Seq(C) : more = (e.ns \o <<Percent>>) \o Hex(ch) /\ Len(more) = k + 3
    BY <2>2, <2>3
  <2>5. PICK alloc \in Int : alloc = IF e.newlen + 2 > e.alloc THEN 2 * e.alloc ELSE e.alloc
    BY <1>1
  <2>6. Escaped(e, ch) = [e EXCEPT !.ns = more, !.newlen = e.newlen + 2, !.needed = k + 4, !.alloc = alloc]
    BY <1>2, <1>5, <2>4, <2>5 DEF Escaped
  <2>7. Escaped(e, ch) = [ns |-> more, alloc |-> alloc, newlen |-> e.newlen + 2, needed |-> k + 4]
    BY <1>1, <2>6
  <2>8. Escaped(e, ch) \in Escaping(C)
    <3>1. e.newlen + 2 \in Int /\ k + 4 \in Int
      BY <1>1
    <3> QED
      BY <1>3, <2>7, <3>1
  <2>9. ASSUME NEW N \in Nat, NEW n \in 1 .. N, e \in HasRoom(C, N, n - 1)
        PROVE  Escaped(e, ch) \in HasRoom(C, N, n)
    <3>1. e.newlen = k + (N - (n - 1)) + 1 /\ e.newlen <= e.alloc /\ N + 1 <= e.alloc
      BY <1>2, <2>9 DEF HasRoom
    <3>2. /\ e.newlen + 2 = (k + 3) + (N - n) + 1 /\ k + 4 <= e.newlen + 2
          /\ e.newlen + 2 <= alloc /\ N + 1 <= alloc
      <4>1. /\ e.newlen + 2 = (k + 3) + (N - n) + 1 /\ k + 4 <= e.newlen + 2
            /\ e.newlen + 2 <= 2 * e.alloc /\ N + 1 <= 2 * e.alloc
        BY <1>1, <3>1, RoomIsKept
      <4>2. e.newlen + 2 <= alloc
        <5>1. \A x, y, z \in Int : z <= 2 * x /\ y = (IF z > x THEN 2 * x ELSE x) => z <= y
          OBVIOUS
        <5>2. e.newlen + 2 \in Int
          BY <1>1
        <5> QED
          BY <1>1, <2>5, <4>1, <5>1, <5>2
      <4>3. N + 1 <= alloc
        BY <2>5, <3>1, <4>1
      <4> QED
        BY <4>1, <4>2, <4>3
    <3>3. k + 4 <= alloc
      <4>1. \A x, y, z \in Int : x <= y /\ y <= z => x <= z
        OBVIOUS
      <4>2. k + 4 \in Int /\ e.newlen + 2 \in Int /\ alloc \in Int
        BY <1>1
      <4> QED
        BY <3>2, <4>1, <4>2, Zenon
    <3> QED
      <4>1. PICK r : r = Escaped(e, ch)
        OBVIOUS
      <4>2. /\ r \in Escaping(C) /\ Len(r.ns) = k + 3 /\ r.alloc = alloc
            /\ r.newlen = e.newlen + 2 /\ r.needed = k + 4
        BY <2>4, <2>7, <2>8, <4>1
      <4>3. r \in HasRoom(C, N, n)
        BY <3>2, <3>3, <4>2 DEF HasRoom
      <4> QED
        BY <4>1, <4>3
  <2> QED
    BY <2>8, <2>9
<1> QED
  BY <1>4, <1>5

\* The states of the loop, one after the other.
EscapingFrom(N) == [ns |-> <<>>, alloc |-> N + 1, newlen |-> N + 1, needed |-> 0]

\* A loop of N steps through the states V, and what it runs through.
Loop(V, N, start, step) == N \in Nat /\ start \in V /\ step \in [1 .. N -> [V -> V]]
Run(V, N, start, step, f) ==
  f \in [0 .. N -> V] /\ f[0] = start /\ \A n \in 1 .. N : f[n] = step[n][f[n - 1]]

LEMMA LoopRuns ==
  ASSUME NEW V, NEW N, NEW start, NEW step, Loop(V, N, start, step)
  PROVE  \E f : Run(V, N, start, step, f)
<1>1. N \in Nat /\ start \in V /\ step \in [1 .. N -> [V -> V]]
  BY DEF Loop
<1>2. \E f \in [0 .. N -> V] : f[0] = start /\ \A n \in 1 .. N : f[n] = step[n][f[n - 1]]
  BY <1>1, LoopExists
<1> QED
  BY <1>2 DEF Run

LEMMA EscapesAre ==
  ASSUME NEW input, NEW N \in Nat, N = Len(input), NEW V, NEW f \in [0 .. N -> V], f[0] = EscapingFrom(N),
         \A n \in 1 .. N : f[n] = Escaped(f[n - 1], input[n])
  PROVE  /\ Escapes(input)[0] = EscapingFrom(N)
         /\ \A n \in 1 .. N : Escapes(input)[n] = Escaped(Escapes(input)[n - 1], input[n])
<1> DEFINE start == EscapingFrom(N)
           Body(g) == [n \in 0 .. N |-> IF n = 0 THEN start ELSE Escaped(g[n - 1], input[n])]
           after == CHOOSE g : g = Body(g)
<1>1. Escapes(input) = after
  BY DEF Escapes, EscapingFrom
<1> HIDE DEF start
<1>2. f = Body(f)
  <2>1. ASSUME NEW n \in 0 .. N PROVE f[n] = Body(f)[n]
    <3>1. CASE n = 0
      BY <3>1 DEF start
    <3>2. CASE n # 0
      <4>1. n \in 1 .. N
        BY <3>2
      <4> QED
        BY <3>2, <4>1
    <3> QED
      BY <3>1, <3>2
  <2> QED
    BY <2>1
<1>3. after = Body(after)
  BY <1>2
<1> HIDE DEF after
<1>4. after[0] = start /\ \A n \in 1 .. N : after[n] = Escaped(after[n - 1], input[n])
  <2>1. 0 \in 0 .. N /\ \A n \in 1 .. N : n \in 0 .. N /\ n # 0
    OBVIOUS
  <2> QED
    BY <1>3, <2>1
<1> QED
  BY <1>1, <1>4 DEF start

LEMMA EscapesInTurn ==
  ASSUME NEW input, NEW N, NEW V, N \in Nat, EscapingFrom(N) \in V,
         \A n \in 1 .. N : \A e \in V : Escaped(e, input[n]) \in V
  PROVE  N = Len(input) =>
           /\ Escapes(input)[0] = EscapingFrom(N)
           /\ \A n \in 1 .. N : Escapes(input)[n] = Escaped(Escapes(input)[n - 1], input[n])
<1> DEFINE step == [n \in 1 .. N |-> [e \in V |-> Escaped(e, input[n])]]
<1>1. step \in [1 .. N -> [V -> V]] /\ \A n \in 1 .. N : \A e \in V : step[n][e] = Escaped(e, input[n])
  OBVIOUS
<1> HIDE DEF step
<1>2. PICK f \in [0 .. N -> V] : f[0] = EscapingFrom(N) /\ \A n \in 1 .. N : f[n] = step[n][f[n - 1]]
  <2>1. Loop(V, N, EscapingFrom(N), step)
    BY <1>1 DEF Loop
  <2>2. PICK f : Run(V, N, EscapingFrom(N), step, f)
    BY <2>1, LoopRuns
  <2> QED
    BY <2>2 DEF Run
<1>3. \A n \in 1 .. N : f[n] = Escaped(f[n - 1], input[n])
  <2>1. \A n \in 1 .. N : f[n - 1] \in V
    BY <1>2
  <2> QED
    BY <1>1, <1>2, <2>1
<1> QED
  BY <1>2, <1>3, EscapesAre

\* However many characters of a text are escaped, each write of xurl_escape is
\* within what it has allocated, and so is the zero at the end (xurl.c:52-100).
THEOREM EscapesFit ==
  ASSUME NEW S, NEW input \in Seq(S), NEW m \in 0 .. Len(input)
  PROVE  /\ Escapes(input)[m].needed <= Escapes(input)[m].alloc
         /\ Len(xurl_escape(input)) < Escapes(input)[Len(input)].alloc
<1> DEFINE C == Escapable(input)
           N == Len(input)
           after == Escapes(input)
<1>1. xurl_escape(input) = after[N].ns
  BY DEF xurl_escape
<1>2. N \in Nat /\ DOMAIN input = 1 .. N
  OBVIOUS
<1>3. Percent \in C /\ \A n \in 1 .. N : input[n] \in C /\ Hex(input[n]) \in Seq(C) /\ Len(Hex(input[n])) = 2
  <2>1. ASSUME NEW n \in 1 .. N
        PROVE  input[n] \in C /\ Hex(input[n])[1] \in C /\ Hex(input[n])[2] \in C
    BY <1>2 DEF Escapable
  <2>2. ASSUME NEW n \in 1 .. N PROVE Hex(input[n]) \in Seq(C) /\ Len(Hex(input[n])) = 2
    <3>1. PICK a, b : Hex(input[n]) = <<a, b>>
      BY DEF Hex
    <3>2. a \in C /\ b \in C
      BY <2>1, <3>1
    <3> HIDE DEF C
    <3> QED
      BY <3>1, <3>2
  <2> QED
    BY <2>1, <2>2 DEF Escapable
<1> HIDE DEF C, N
<1>4. EscapingFrom(N) \in HasRoom(C, N, 0) /\ EscapingFrom(N) \in Escaping(C)
  BY <1>2 DEF EscapingFrom, HasRoom, Escaping
<1>5. \A n \in 1 .. N : \A e \in Escaping(C) :
        /\ Escaped(e, input[n]) \in Escaping(C)
        /\ e \in HasRoom(C, N, n - 1) => Escaped(e, input[n]) \in HasRoom(C, N, n)
  BY <1>2, <1>3, EscapedIs
<1>6. after[0] = EscapingFrom(N) /\ \A n \in 1 .. N : after[n] = Escaped(after[n - 1], input[n])
  <2> HIDE DEF after
  <2>1. N = Len(input)
    BY DEF N
  <2>2. \A n \in 1 .. N : \A e \in Escaping(C) : Escaped(e, input[n]) \in Escaping(C)
    BY <1>5
  <2> QED
    BY <1>2, <1>4, <2>1, <2>2, EscapesInTurn DEF after
<1> HIDE DEF after
<1> DEFINE W == [n \in 0 .. N |-> HasRoom(C, N, n)]
<1>7. after[0] \in W[0]
  BY <1>2, <1>4, <1>6
<1>8. ASSUME NEW n \in 1 .. N, after[n - 1] \in W[n - 1] PROVE after[n] \in W[n]
  <2>1. n \in 0 .. N /\ n - 1 \in 0 .. N
    BY <1>2
  <2>2. after[n - 1] \in HasRoom(C, N, n - 1) /\ after[n - 1] \in Escaping(C)
    BY <1>8, <2>1 DEF HasRoom
  <2> QED
    BY <1>5, <1>6, <2>1, <2>2
<1>9. ASSUME NEW n \in 0 .. N PROVE after[n] \in HasRoom(C, N, n)
  <2>1. after[n] \in W[n]
    <3> HIDE DEF W
    <3> QED
      BY <1>2, <1>7, <1>8, LoopKeeps
  <2> QED
    BY <2>1
<1>10. after[m].needed <= after[m].alloc
  BY <1>9 DEF HasRoom, N
<1>11. Len(after[N].ns) < after[N].alloc
  <2>1. after[N] \in HasRoom(C, N, N)
    BY <1>2, <1>9
  <2>2. after[N].ns \in Seq(C) /\ after[N].alloc \in Int /\ Len(after[N].ns) \in Nat
    BY <2>1 DEF HasRoom, Escaping
  <2> QED
    BY <1>2, <2>1, <2>2 DEF HasRoom
<1> QED
  BY <1>1, <1>10, <1>11 DEF N, after

-----------------------------------------------------------------------------
(* xrandom.c *)

\* The values of a byte, which are the places of the box.
ByteValues == 0 .. BoxLen - 1
Boxes == [ByteValues -> ByteValues]
Generated == [i : ByteValues, j : ByteValues, box : Boxes, bytes : Seq(ByteValues)]

\* Both boxes have every value equally often.
Arranges(box, other) ==
  \A v \in ByteValues :
    Cardinality({n \in ByteValues : box[n] = v}) = Cardinality({n \in ByteValues : other[n] = v})

\* The inductive invariant.
RandomInv ==
  /\ rc4_sbox \in Boxes /\ seed \in Boxes /\ Arranges(rc4_sbox, seed)
  /\ positions \in [Generators -> [i : ByteValues, j : ByteValues]]
  /\ drawn # <<>> => drawn \in Seq(ByteValues) /\ Len(drawn) >= RoundLen

\* What a remainder is, of a number that is small, too.
LEMMA RemainderIs ==
  ASSUME NEW n \in Nat \ {0}
  PROVE  /\ \A a \in Int : (a % n) \in 0 .. n - 1
         /\ \A a \in 0 .. n - 1 : (a % n) = a
         /\ (n % n) = 0
OBVIOUS

\* Two places of a box that change their values.
LEMMA SwapArranges ==
  ASSUME NEW box \in Boxes, NEW i \in ByteValues, NEW j \in ByteValues, NEW v
  PROVE  Cardinality({n \in ByteValues : [box EXCEPT ![i] = box[j], ![j] = box[i]][n] = v}) =
           Cardinality({n \in ByteValues : box[n] = v})
<1> DEFINE p == [box EXCEPT ![i] = box[j], ![j] = box[i]]
           S == {n \in ByteValues : box[n] = v}
           T == {n \in ByteValues : p[n] = v}
           f == [n \in S |-> IF n = i THEN j ELSE IF n = j THEN i ELSE n]
<1>1. \A n \in ByteValues : p[n] = IF n = i THEN box[j] ELSE IF n = j THEN box[i] ELSE box[n]
  BY DEF Boxes
<1> HIDE DEF p
<1>2. \A n \in S : f[n] \in T
  BY <1>1
<1>3. \A m, n \in S : f[m] = f[n] => m = n
  OBVIOUS
<1>4. \A m \in T : \E n \in S : f[n] = m
  <2> SUFFICES ASSUME NEW m \in T PROVE \E n \in S : f[n] = m
    OBVIOUS
  <2> DEFINE n == IF m = i THEN j ELSE IF m = j THEN i ELSE m
  <2>1. n \in S
    BY <1>1
  <2>2. f[n] = m
    BY <2>1
  <2> QED
    BY <2>1, <2>2
<1>5. f \in Bijection(S, T)
  <2>1. f \in [S -> T]
    BY <1>2
  <2> HIDE DEF f, S, T
  <2> QED
    BY <1>3, <1>4, <2>1 DEF Bijection, Injection, Surjection, IsInjective
<1>6. IsFiniteSet(S)
  <2>1. IsFiniteSet(ByteValues)
    BY RandomSizes, FS_Interval DEF ByteValues
  <2> QED
    BY <2>1, FS_Subset
<1>7. ExistsBijection(S, T)
  BY <1>5 DEF ExistsBijection
<1>8. Cardinality(T) = Cardinality(S)
  <2> HIDE DEF S, T
  <2> QED
    BY <1>6, <1>7, FS_Bijection
<1> QED
  BY <1>8 DEF p

\* One byte more.
LEMMA StirredIs ==
  ASSUME NEW s \in Generated
  PROVE  /\ Stirred(s) \in Generated
         /\ Arranges(Stirred(s).box, s.box)
         /\ Len(Stirred(s).bytes) = Len(s.bytes) + 1
<1> DEFINE i  == (s.i + 1) % BoxLen
           si == s.box[i]
           j  == (s.j + si) % BoxLen
           sj == s.box[j]
           box == [s.box EXCEPT ![i] = sj, ![j] = si]
           b == box[(si + sj) % BoxLen]
<1>1. Stirred(s) = [i |-> i, j |-> j, box |-> box, bytes |-> Append(s.bytes, b)]
  BY DEF Stirred
<1>2. \A a \in Int : (a % BoxLen) \in ByteValues
  BY RandomSizes, RemainderIs DEF ByteValues
<1>3. s.i \in Int /\ s.j \in Int /\ s.box \in Boxes /\ s.bytes \in Seq(ByteValues)
  BY RandomSizes DEF Generated, ByteValues
<1>4. ByteValues \subseteq Int
  BY RandomSizes DEF ByteValues
<1>5. i \in ByteValues
  BY <1>2, <1>3
<1>6. si \in ByteValues
  BY <1>3, <1>5 DEF Boxes
<1>7. j \in ByteValues
  <2>1. s.j + si \in Int
    <3> HIDE DEF si
    <3> QED
      BY <1>3, <1>4, <1>6
  <2> HIDE DEF si
  <2> QED
    BY <1>2, <2>1
<1>8. sj \in ByteValues
  BY <1>3, <1>7 DEF Boxes
<1>9. (si + sj) % BoxLen \in ByteValues
  <2>1. si + sj \in Int
    <3> HIDE DEF si, sj
    <3> QED
      BY <1>4, <1>6, <1>8
  <2> HIDE DEF si, sj
  <2> QED
    BY <1>2, <2>1
<1> HIDE DEF i, j
<1>10. box \in Boxes
  BY <1>3, <1>5, <1>6, <1>7, <1>8 DEF Boxes
<1>11. b \in ByteValues
  <2> HIDE DEF box, si, sj
  <2> QED
    BY <1>9, <1>10 DEF Boxes
<1>12. Arranges(box, s.box)
  <2>1. \A v : Cardinality({n \in ByteValues : box[n] = v}) = Cardinality({n \in ByteValues : s.box[n] = v})
    BY <1>3, <1>5, <1>7, SwapArranges
  <2> HIDE DEF box
  <2> QED
    BY <2>1 DEF Arranges
<1> HIDE DEF box, b
<1>13. Append(s.bytes, b) \in Seq(ByteValues) /\ Len(Append(s.bytes, b)) = Len(s.bytes) + 1
  BY <1>3, <1>11
<1> QED
  BY <1>1, <1>5, <1>7, <1>10, <1>12, <1>13 DEF Generated

\* As many bytes as a call stores.
LEMMA StirredTimesIs ==
  ASSUME NEW N \in Nat, NEW start \in Generated, start.bytes = <<>>
  PROVE  /\ StirredTimes(start, N) \in Generated
         /\ Arranges(StirredTimes(start, N).box, start.box)
         /\ Len(StirredTimes(start, N).bytes) = N
<1> DEFINE Body(f) == [k \in 0 .. N |-> IF k = 0 THEN start ELSE Stirred(f[k - 1])]
           after == CHOOSE f : f = Body(f)
           step == [k \in 1 .. N |-> [s \in Generated |-> Stirred(s)]]
<1>1. StirredTimes(start, N) = after[N]
  BY DEF StirredTimes
<1>2. step \in [1 .. N -> [Generated -> Generated]] /\ \A k \in 1 .. N : \A s \in Generated : step[k][s] = Stirred(s)
  BY StirredIs
<1> HIDE DEF step
<1>3. PICK f \in [0 .. N -> Generated] : f[0] = start /\ \A k \in 1 .. N : f[k] = step[k][f[k - 1]]
  <2> HIDE DEF Body, after
  <2>1. \E f \in [0 .. N -> Generated] : f[0] = start /\ \A n \in 1 .. N : f[n] = step[n][f[n - 1]]
    <3>1. PICK V, one : V = Generated /\ one = step
      OBVIOUS
    <3>2. start \in V /\ N \in Nat /\ one \in [1 .. N -> [V -> V]]
      BY <1>2, <3>1
    <3>3. \E f \in [0 .. N -> V] : f[0] = start /\ \A n \in 1 .. N : f[n] = one[n][f[n - 1]]
      BY <3>2, LoopExists
    <3> QED
      BY <3>1, <3>3
  <2> QED
    BY <2>1
<1>4. f = Body(f)
  <2>1. ASSUME NEW k \in 0 .. N PROVE f[k] = Body(f)[k]
    <3>1. CASE k = 0
      BY <1>3, <3>1
    <3>2. CASE k # 0
      <4>1. k \in 1 .. N /\ k - 1 \in 0 .. N
        BY <3>2
      <4>2. f[k - 1] \in Generated
        BY <4>1
      <4> QED
        BY <1>2, <1>3, <3>2, <4>1, <4>2
    <3> QED
      BY <3>1, <3>2
  <2> QED
    BY <1>3, <2>1
<1>5. after = Body(after)
  BY <1>4
<1> HIDE DEF after
<1>6. after[0] = start /\ \A k \in 1 .. N : after[k] = Stirred(after[k - 1])
  <2>1. 0 \in 0 .. N /\ \A k \in 1 .. N : k \in 0 .. N /\ k # 0
    OBVIOUS
  <2> QED
    BY <1>5, <2>1
<1> DEFINE W == [k \in 0 .. N |-> {s \in Generated : Arranges(s.box, start.box) /\ Len(s.bytes) = k}]
<1>7. after[0] \in W[0]
  <2>1. Arranges(start.box, start.box) /\ Len(start.bytes) = 0
    BY DEF Arranges
  <2> QED
    BY <1>6, <2>1
<1>8. ASSUME NEW k \in 1 .. N, after[k - 1] \in W[k - 1] PROVE after[k] \in W[k]
  <2>1. k \in 0 .. N /\ k - 1 \in 0 .. N /\ (k - 1) + 1 = k
    OBVIOUS
  <2>2. PICK s : s = after[k - 1]
    OBVIOUS
  <2>3. s \in Generated /\ Arranges(s.box, start.box) /\ Len(s.bytes) = k - 1 /\ after[k] = Stirred(s)
    BY <1>6, <1>8, <2>1, <2>2
  <2>4. Stirred(s) \in Generated /\ Arranges(Stirred(s).box, s.box) /\ Len(Stirred(s).bytes) = (k - 1) + 1
    BY <2>3, StirredIs
  <2>5. Arranges(Stirred(s).box, start.box)
    BY <2>3, <2>4 DEF Arranges
  <2> QED
    BY <2>1, <2>3, <2>4, <2>5
<1>9. after[N] \in W[N]
  <2>1. N \in 0 .. N
    OBVIOUS
  <2> HIDE DEF W
  <2> QED
    BY <1>7, <1>8, <2>1, LoopKeeps
<1> QED
  BY <1>1, <1>9

\* Products of numbers.
LEMMA Products ==
  /\ \A a, b \in Nat : a * b \in Nat
  /\ \A a, b \in Nat \ {0} : a * b \in Nat \ {0}
OBVIOUS

\* The values of a number are some.
LEMMA UIntValuesIs == UIntValues \in Nat \ {0}
<1> DEFINE Body(f) == [n \in 0 .. RoundLen |-> IF n = 0 THEN 1 ELSE BoxLen * f[n - 1]]
           power == CHOOSE f : f = Body(f)
           V == Nat \ {0}
           step == [n \in 1 .. RoundLen |-> [x \in V |-> BoxLen * x]]
<1>1. UIntValues = power[RoundLen]
  BY DEF UIntValues
<1>2. /\ step \in [1 .. RoundLen -> [V -> V]] /\ 1 \in V /\ RoundLen \in Nat
      /\ \A n \in 1 .. RoundLen : \A x \in V : step[n][x] = BoxLen * x
  BY RandomSizes, Products
<1> HIDE DEF step, V
<1>3. PICK f \in [0 .. RoundLen -> V] : f[0] = 1 /\ \A n \in 1 .. RoundLen : f[n] = step[n][f[n - 1]]
  <2> HIDE DEF Body, power
  <2>1. PICK S, one, first : S = V /\ one = step /\ first = 1
    OBVIOUS
  <2>2. first \in S /\ RoundLen \in Nat /\ one \in [1 .. RoundLen -> [S -> S]]
    BY <1>2, <2>1
  <2>3. \E f \in [0 .. RoundLen -> S] : f[0] = first /\ \A n \in 1 .. RoundLen : f[n] = one[n][f[n - 1]]
    BY <2>2, LoopExists
  <2> QED
    BY <2>1, <2>3
<1>4. f = Body(f)
  <2>1. ASSUME NEW n \in 0 .. RoundLen PROVE f[n] = Body(f)[n]
    <3>1. CASE n = 0
      BY <1>3, <3>1
    <3>2. CASE n # 0
      <4>1. n \in 1 .. RoundLen /\ n - 1 \in 0 .. RoundLen
        BY <1>2, <3>2
      <4>2. f[n - 1] \in V
        BY <1>3, <4>1
      <4> QED
        BY <1>2, <1>3, <3>2, <4>1, <4>2
    <3> QED
      BY <3>1, <3>2
  <2> QED
    BY <1>3, <2>1
<1>5. power = Body(power)
  BY <1>4
<1> HIDE DEF power
<1>6. power[0] = 1 /\ \A n \in 1 .. RoundLen : power[n] = BoxLen * power[n - 1]
  <2>1. 0 \in 0 .. RoundLen /\ \A n \in 1 .. RoundLen : n \in 0 .. RoundLen /\ n # 0
    BY <1>2
  <2> QED
    BY <1>5, <2>1
<1> DEFINE W == [n \in 0 .. RoundLen |-> V]
<1>7. power[0] \in W[0]
  BY <1>2, <1>6
<1>8. ASSUME NEW n \in 1 .. RoundLen, power[n - 1] \in W[n - 1] PROVE power[n] \in W[n]
  <2>1. n \in 0 .. RoundLen /\ n - 1 \in 0 .. RoundLen
    BY <1>2
  <2>2. power[n - 1] \in V
    BY <1>8, <2>1
  <2>3. BoxLen * power[n - 1] \in V
    BY <2>2, RandomSizes, Products DEF V
  <2> QED
    BY <1>6, <2>1, <2>3
<1>9. power[RoundLen] \in W[RoundLen] /\ RoundLen \in 0 .. RoundLen
  <2>1. RoundLen \in 0 .. RoundLen
    BY <1>2
  <2> HIDE DEF W
  <2> QED
    BY <1>2, <1>7, <1>8, <2>1, LoopKeeps
<1> QED
  BY <1>1, <1>9 DEF V

\* The first bytes that a call has stored are a number.
LEMMA WordIs ==
  ASSUME NEW bytes \in Seq(ByteValues), Len(bytes) >= RoundLen
  PROVE  WordOf(bytes) \in Nat
<1> DEFINE Body(f) == [n \in 0 .. RoundLen |-> IF n = 0 THEN 0 ELSE bytes[RoundLen + 1 - n] + BoxLen * f[n - 1]]
           above == CHOOSE f : f = Body(f)
           step == [n \in 1 .. RoundLen |-> [x \in Nat |-> bytes[RoundLen + 1 - n] + BoxLen * x]]
<1>1. WordOf(bytes) = above[RoundLen]
  BY DEF WordOf
<1>a. RoundLen \in Nat /\ \A n \in 1 .. RoundLen : bytes[RoundLen + 1 - n] \in Nat
  <2>1. \A n \in 1 .. RoundLen : RoundLen + 1 - n \in 1 .. Len(bytes)
    BY RandomSizes
  <2>2. \A n \in 1 .. Len(bytes) : bytes[n] \in ByteValues
    BY ElementOfSeq
  <2> QED
    BY <2>1, <2>2, RandomSizes DEF ByteValues
<1>2. /\ step \in [1 .. RoundLen -> [Nat -> Nat]]
      /\ \A n \in 1 .. RoundLen : \A x \in Nat : step[n][x] = bytes[RoundLen + 1 - n] + BoxLen * x
  <2>1. \A n \in 1 .. RoundLen : \A x \in Nat : bytes[RoundLen + 1 - n] + BoxLen * x \in Nat
    <3> SUFFICES ASSUME NEW n \in 1 .. RoundLen, NEW x \in Nat
                 PROVE  bytes[RoundLen + 1 - n] + BoxLen * x \in Nat
      OBVIOUS
    <3>1. BoxLen * x \in Nat
      BY RandomSizes, Products
    <3> QED
      BY <1>a, <3>1
  <2> QED
    BY <2>1
<1> HIDE DEF step
<1>3. PICK f \in [0 .. RoundLen -> Nat] : f[0] = 0 /\ \A n \in 1 .. RoundLen : f[n] = step[n][f[n - 1]]
  <2> HIDE DEF Body, above
  <2>1. PICK V, one : V = Nat /\ one = step
    OBVIOUS
  <2>2. 0 \in V /\ one \in [1 .. RoundLen -> [V -> V]]
    BY <1>2, <2>1
  <2>3. \E f \in [0 .. RoundLen -> V] : f[0] = 0 /\ \A n \in 1 .. RoundLen : f[n] = one[n][f[n - 1]]
    BY <1>a, <2>2, LoopExists
  <2> QED
    BY <2>1, <2>3
<1>4. f = Body(f)
  <2>1. ASSUME NEW n \in 0 .. RoundLen PROVE f[n] = Body(f)[n]
    <3>1. CASE n = 0
      BY <1>3, <3>1
    <3>2. CASE n # 0
      <4>1. n \in 1 .. RoundLen /\ n - 1 \in 0 .. RoundLen
        BY <1>a, <3>2
      <4>2. f[n - 1] \in Nat
        BY <1>3, <4>1
      <4> QED
        BY <1>2, <1>3, <3>2, <4>1, <4>2
    <3> QED
      BY <3>1, <3>2
  <2> QED
    BY <1>3, <2>1
<1>5. above = Body(above)
  BY <1>4
<1> HIDE DEF above
<1>6. above[0] = 0 /\ \A n \in 1 .. RoundLen : above[n] = bytes[RoundLen + 1 - n] + BoxLen * above[n - 1]
  <2>1. 0 \in 0 .. RoundLen /\ \A n \in 1 .. RoundLen : n \in 0 .. RoundLen /\ n # 0
    BY <1>a
  <2> QED
    BY <1>5, <2>1
<1> DEFINE W == [n \in 0 .. RoundLen |-> Nat]
<1>7. above[0] \in W[0]
  BY <1>6, <1>a
<1>8. ASSUME NEW n \in 1 .. RoundLen, above[n - 1] \in W[n - 1] PROVE above[n] \in W[n]
  <2>1. n \in 0 .. RoundLen /\ n - 1 \in 0 .. RoundLen
    BY <1>a
  <2>2. above[n - 1] \in Nat
    BY <1>8, <2>1
  <2>3. BoxLen * above[n - 1] \in Nat
    BY <2>2, RandomSizes, Products
  <2>4. above[n] = bytes[RoundLen + 1 - n] + BoxLen * above[n - 1] /\ bytes[RoundLen + 1 - n] \in Nat
    BY <1>6, <1>a
  <2>5. above[n] \in Nat
    <3> DEFINE x == BoxLen * above[n - 1]
               b == bytes[RoundLen + 1 - n]
    <3>1. x \in Nat /\ b \in Nat /\ above[n] = b + x
      BY <2>3, <2>4
    <3> HIDE DEF x, b
    <3> QED
      BY <3>1
  <2> QED
    BY <2>1, <2>5
<1>9. above[RoundLen] \in W[RoundLen] /\ RoundLen \in 0 .. RoundLen
  <2>1. RoundLen \in 0 .. RoundLen
    BY <1>a
  <2> HIDE DEF W
  <2> QED
    BY <1>a, <1>7, <1>8, <2>1, LoopKeeps
<1> QED
  BY <1>1, <1>9

\* A value is in the range unless the range is that of all numbers.
LEMMA RangeIs ==
  ASSUME NEW min \in 0 .. UIntValues - 1, NEW max \in min .. UIntValues - 1, NEW r \in Nat,
         max - min # UIntValues - 1
  PROVE  RangeValue(min, max, r) \in min .. max
<1>1. PICK U \in Nat \ {0} : U = UIntValues
  BY UIntValuesIs
<1>2. /\ min \in Nat /\ max \in Nat /\ min <= max /\ max <= U - 1
      /\ max - min \in 0 .. U - 1 /\ max - min # U - 1
  BY <1>1
<1>3. PICK n : n = max - min + 1
  OBVIOUS
<1>4. n \in 0 .. U - 1 /\ n \in Nat \ {0} /\ n = max - min + 1
  BY <1>2, <1>3
<1>5. ((max - min) % U) = max - min /\ (n % U) = n
  BY <1>2, <1>4, RemainderIs
<1>6. (r % n) \in 0 .. n - 1
  BY <1>4, RemainderIs
<1>7. ValuesIn(min, max) = n
  BY <1>1, <1>3, <1>5 DEF ValuesIn
<1>8. RangeValue(min, max, r) = (min + (r % n)) % U
  BY <1>1, <1>7 DEF RangeValue
<1>9. PICK k \in 0 .. n - 1 : k = (r % n)
  BY <1>6
<1>10. min + k \in 0 .. U - 1 /\ min + k \in min .. max
  BY <1>2, <1>4
<1>11. ((min + k) % U) = min + k
  BY <1>10, RemainderIs
<1>12. RangeValue(min, max, r) = min + k
  BY <1>8, <1>9, <1>11
<1> QED
  BY <1>10, <1>12

\* Before the first call the box has one value at each place.
LEMMA RandomStart == RandomInit => RandomInv
<1> SUFFICES ASSUME RandomInit PROVE RandomInv
  OBVIOUS
<1>1. 0 \in ByteValues
  BY RandomSizes DEF ByteValues
<1>2. rc4_sbox \in Boxes
  BY <1>1 DEF RandomInit, Boxes, ByteValues
<1> QED
  BY <1>1, <1>2 DEF RandomInit, RandomInv, Arranges

\* A call of any generator.
LEMMA DrawStep ==
  ASSUME RandomInv, NEW g \in Generators, NEW rounds \in {1, 7}, Draw(g, rounds)
  PROVE  RandomInv'
<1> DEFINE start(box) == [i |-> positions[g].i, j |-> positions[g].j, box |-> box, bytes |-> <<>>]
<1>1. PICK box \in Seeds \cup {rc4_sbox} :
        /\ xrand_rc4_fill(box)
        /\ seed' = IF rc4_seedflag = 0 THEN box ELSE seed
        /\ rc4_sbox' = StirredTimes(start(box), rounds * RoundLen).box
        /\ positions' = [positions EXCEPT ![g] = [i |-> StirredTimes(start(box), rounds * RoundLen).i,
                                                  j |-> StirredTimes(start(box), rounds * RoundLen).j]]
        /\ drawn' = StirredTimes(start(box), rounds * RoundLen).bytes
  BY DEF Draw
<1>2. PICK n : n = rounds * RoundLen
  OBVIOUS
<1>3. n \in Nat /\ n >= RoundLen
  BY <1>2, RandomSizes
<1>4. box \in Boxes
  BY RandomSizes DEF RandomInv, Boxes, ByteValues
<1>5. start(box) \in Generated /\ start(box).bytes = <<>> /\ start(box).box = box
  BY <1>4 DEF RandomInv, Generated
<1>6. PICK s : s = StirredTimes(start(box), n)
  OBVIOUS
<1>7. s \in Generated /\ Arranges(s.box, box) /\ Len(s.bytes) = n
  <2> HIDE DEF start
  <2> QED
    BY <1>3, <1>5, <1>6, StirredTimesIs
<1>8. rc4_sbox' = s.box /\ positions' = [positions EXCEPT ![g] = [i |-> s.i, j |-> s.j]] /\ drawn' = s.bytes
  BY <1>1, <1>2, <1>6
<1>9. seed' \in Boxes /\ Arranges(s.box, seed')
  <2>1. CASE rc4_seedflag = 0
    BY <1>1, <1>4, <1>7, <2>1
  <2>2. CASE rc4_seedflag # 0
    <3>1. box = rc4_sbox /\ seed' = seed
      BY <1>1, <2>2 DEF xrand_rc4_fill
    <3> QED
      BY <1>7, <3>1 DEF RandomInv, Arranges
  <2> QED
    BY <2>1, <2>2
<1>10. positions' \in [Generators -> [i : ByteValues, j : ByteValues]]
  BY <1>7, <1>8 DEF RandomInv, Generated
<1>11. Arranges(rc4_sbox, seed)'
  BY <1>8, <1>9 DEF Arranges
<1> QED
  BY <1>3, <1>7, <1>8, <1>9, <1>10, <1>11 DEF RandomInv, Generated

\* Every step keeps the invariant.
LEMMA RandomStep == RandomInv /\ [RandomNext]_randomVars => RandomInv'
<1> SUFFICES ASSUME RandomInv, [RandomNext]_randomVars PROVE RandomInv'
  OBVIOUS
<1>1. CASE RandomNext
  <2>1. \E g \in Generators : \E rounds \in {1, 7} : Draw(g, rounds)
    BY <1>1 DEF RandomNext, Generators, xrand_rc4, xrand_rc41, xrand_rc42, xrand_rc43, xrand_rc44,
                xrand_rc45, xrand_rc46, xrand_rc47, xrand_rc48, xrand_range, DrawBeyond
  <2> QED
    BY <2>1, DrawStep
<1>2. CASE UNCHANGED randomVars
  BY <1>2 DEF randomVars, RandomInv, Arranges
<1> QED
  BY <1>1, <1>2

\* What the invariant says of the box and of the numbers.
LEMMA BoxKept == RandomInv => BoxKeepsItsValues
<1> SUFFICES ASSUME RandomInv PROVE BoxKeepsItsValues
  OBVIOUS
<1>1. DOMAIN rc4_sbox = ByteValues /\ DOMAIN seed = ByteValues
  BY DEF RandomInv, Boxes
<1>2. \A v \in 0 .. BoxLen - 1 :
        Cardinality({n \in DOMAIN rc4_sbox : rc4_sbox[n] = v}) = Cardinality({n \in DOMAIN seed : seed[n] = v})
  BY <1>1 DEF RandomInv, Arranges, ByteValues
<1>3. ASSUME drawn # <<>> PROVE WordOf(drawn) \in Nat
  BY <1>3, WordIs DEF RandomInv
<1> QED
  BY <1>2, <1>3, RangeIs DEF BoxKeepsItsValues

\* Whichever generators are called, in whatever order, and as long as no store
\* beyond a result has done harm and no range was that of all numbers, the box
\* that they share is an arrangement of what it was filled with, and a number
\* drawn gives a value of any other range that is asked for (xrandom.c:48-642).
THEOREM BoxStaysShuffled == RandomSpec => []BoxKeepsItsValues
BY RandomStart, RandomStep, BoxKept, PTL DEF RandomSpec

=============================================================================
