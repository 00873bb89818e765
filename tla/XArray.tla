------------------------------- MODULE XArray -------------------------------
(***************************************************************************)
(* src/src/xarray.c: an array of pointers that grows when it is set behind *)
(* its end and shrinks when it gets empty.  One thread uses it.  A call    *)
(* that uses memory outside of the array's block ends the behaviour: what  *)
(* is in memory then is not defined.                                       *)
(***************************************************************************)
EXTENDS Integers, Sequences, FiniteSets

CONSTANTS
  Elements,   \* pointers
  Hole,       \* NULL
  KeyOf,      \* what cmp_f compares
  MaxPlace,   \* bound: the greatest index that is set
  MaxLength   \* bound: the size that xarray_append is asked for

ASSUME ArrayAssumption ==
  /\ Hole \notin Elements
  /\ DOMAIN KeyOf = Elements
  /\ MaxPlace \in Nat /\ MaxLength \in Nat \ {0}

VARIABLES
  length,        \* array->size
  count,         \* array->count
  place,         \* array->data, from 0
  appendEnable,  \* array->append_enable
  lastCall,      \* history: the last call that may change the array, and its result
  overrun        \* history: a call has gone outside of the block of the array

arrayVars == <<length, count, place, appendEnable, lastCall, overrun>>

\* xarray_create.
ArrayInit ==
  /\ length \in 1 .. 2
  /\ count = 0
  /\ place = [i \in 0 .. length - 1 |-> Hole]
  /\ appendEnable \in BOOLEAN
  /\ lastCall = <<"none">> /\ overrun = FALSE

Overruns == overrun' = TRUE /\ UNCHANGED <<length, count, place, appendEnable, lastCall>>

\* Mutant: the memset begins one place early.
ResizedEarly(data, n) == [i \in 0 .. n - 1 |-> IF i + 1 \in DOMAIN data THEN data[i] ELSE Hole]

\* calloc, or realloc and memset.
Resized(data, n) == [i \in 0 .. n - 1 |-> IF i \in DOMAIN data THEN data[i] ELSE Hole]

\* xarray_append.  A size that is not positive empties the array; realloc may
\* fail.  An array that gets shorter than its count keeps the count.
AppendCall(extents) ==
  LET newsize == length + extents
  IN  /\ ~ overrun /\ newsize <= MaxLength
      /\ \/ newsize > 0 /\ lastCall' = <<"append", newsize>>
            /\ length' = newsize /\ place' = Resized(place, newsize) /\ UNCHANGED count
         \/ newsize > 0 /\ lastCall' = <<"append", -1>> /\ UNCHANGED <<length, count, place>>
         \/ newsize <= 0 /\ lastCall' = <<"append", 0>>
            /\ length' = 0 /\ place' = Resized(place, 0) /\ count' = 0
      /\ UNCHANGED <<appendEnable, overrun>>

\* xarray_traverse and the others that go through the elements.
Traverse == ~ overrun /\ count > length /\ Overruns

-----------------------------------------------------------------------------
(* xarray_set_index, xarray_fset_index, xarray_set *)

Fits(index) == index < length

Write(data, index, e) ==
  /\ place' = [data EXCEPT ![index] = e]
  /\ count' = IF index + 1 > count THEN index + 1 ELSE count

Sets(force) == IF force THEN "fset" ELSE "set"

SetWithin(index, e, force) ==
  /\ Fits(index)
  /\ place[index] # Hole => force
  /\ Write(place, index, e)
  /\ lastCall' = <<Sets(force), index + 1, e, 0>>
  /\ UNCHANGED <<length, appendEnable, overrun>>

\* Twice the size is not less than an index that is as great: the array is
\* made no longer than that, or freed if it had no place, and written behind.
NewSize(index) == IF length * 2 < index THEN index + 1 ELSE length * 2

SetGrowing(index, e, force) ==
  /\ ~ Fits(index) /\ appendEnable
  /\ IF index < NewSize(index)
     THEN /\ length' = NewSize(index)
          /\ Write(Resized(place, NewSize(index)), index, e)
          /\ lastCall' = <<Sets(force), index + 1, e, 0>>
          /\ UNCHANGED <<appendEnable, overrun>>
     ELSE Overruns

\* The place is taken, the array may not grow, or realloc fails.
SetFails(index, e, force) ==
  /\ \/ Fits(index) /\ place[index] # Hole /\ ~ force
     \/ ~ Fits(index) /\ (appendEnable => NewSize(index) > 0)
  /\ lastCall' = <<Sets(force), index + 1, e, -1>>
  /\ UNCHANGED <<length, count, place, appendEnable, overrun>>

SetIndex(index, e, force) ==
  ~ overrun /\ (SetWithin(index, e, force) \/ SetGrowing(index, e, force) \/ SetFails(index, e, force))

-----------------------------------------------------------------------------
(* xarray_remove_index, xarray_remove, xarray_remove_data *)

\* memmove over the removed one; the last one is cleared.
ClosedUp(index) ==
  [i \in DOMAIN place |-> CASE i \in index .. count - 2 -> place[i + 1]
                            [] i = count - 1            -> Hole
                            [] OTHER                    -> place[i]]

\* What is left of the array after that: append_enable lets it shrink, unless
\* realloc fails.
LengthsLeft ==
  IF appendEnable /\ count - 1 <= length \div 2
  THEN {length - (count - 1), length} ELSE {length}

\* The places behind the removed one are moved up to the count, whatever the
\* count is; behind the last element that is a length less than zero.
CloseUp(index) ==
  IF index < count /\ count <= length
  THEN /\ count' = count - 1
       /\ \E n \in LengthsLeft : length' = n /\ place' = Resized(ClosedUp(index), n)
       /\ UNCHANGED <<appendEnable, overrun>>
  ELSE Overruns

\* xarray_remove_index, and xarray_remove, which gives it array->count - 1: as
\* the size has no sign, an index below zero is not less than it.
RemoveIndex(index) ==
  /\ ~ overrun
  /\ IF index \in 0 .. length - 1
     THEN /\ CloseUp(index)
          /\ overrun' \/ lastCall' = <<"remove", index + 1, place[index]>>
     ELSE lastCall' = <<"remove", index + 1, Hole>>
          /\ UNCHANGED <<length, count, place, appendEnable, overrun>>

\* xarray_remove_data: the first element that cmp_f finds equal, which no hole is.
RemoveData(e) ==
  LET equal == {i \in 0 .. count - 1 : i < length /\ place[i] # Hole /\ KeyOf[place[i]] = KeyOf[e]}
  IN  /\ ~ overrun
      /\ \/ \E index \in equal :
              /\ \A i \in equal : index <= i
              /\ CloseUp(index)
              /\ overrun' \/ lastCall' = <<"remove_data", e, 0>>
         \/ equal = {} /\ (length = 0 \/ count <= length)
            /\ lastCall' = <<"remove_data", e, -1>>
            /\ UNCHANGED <<length, count, place, appendEnable, overrun>>
         \/ equal = {} /\ length # 0 /\ count > length /\ Overruns

ArrayNext ==
  \/ \E index \in 0 .. MaxPlace, e \in Elements \cup {Hole}, force \in BOOLEAN :
       SetIndex(index, e, force)
  \/ \E index \in -1 .. MaxPlace : RemoveIndex(index)
  \/ \E e \in Elements : RemoveData(e)
  \/ \E extents \in - MaxLength .. MaxLength : AppendCall(extents)
  \/ Traverse

ArraySpec == ArrayInit /\ [][ArrayNext]_arrayVars

-----------------------------------------------------------------------------
(* Properties *)

\* Whatever is called, the places that no element has are empty, so that
\* xarray_set, which adds at array->count and does not force, always finds its
\* place free; and an array that has no place has no element (xarray.c).
ElementsFit ==
  /\ length \in Nat /\ count \in Nat /\ overrun \in BOOLEAN
  /\ place \in [0 .. length - 1 -> Elements \cup {Hole}]
  /\ \A i \in 0 .. length - 1 : i >= count => place[i] = Hole
  /\ length = 0 => count = 0

\* The elements are all within the block.
Contained == ~ overrun /\ count <= length

\* There are three calls after which they may not be: to set a place that is
\* exactly twice the size, which adding at the end does only to an array that
\* has been emptied; to remove a place without an element; and to shrink an
\* array below its elements.  No other sequence of calls that grow, shrink, set
\* and remove goes outside (xarray.c:198, :338, :140).
StaysContained ==
  [][Contained =>
       \/ Contained'
       \/ \E e \in Elements \cup {Hole}, force \in BOOLEAN : SetIndex(length * 2, e, force)
       \/ \E index \in count .. length - 1 : RemoveIndex(index)
       \/ \E extents \in - MaxLength .. MaxLength :
            length + extents \in 1 .. count - 1 /\ AppendCall(extents)]_arrayVars

\* What an array holds; what was behind the end of one that has shrunk is lost.
ListOf == [n \in 1 .. count |-> IF n <= length THEN place[n - 1] ELSE Hole]

ArrayPromise == INSTANCE HoleyList WITH
  Places <- 0 .. MaxPlace + 1, Sizes <- 0 .. MaxLength, list <- ListOf, call <- lastCall

\* The array is a list with holes, and each call does to it what its name, its
\* arguments and its result say, until one has gone outside (xarray.c:122-425).
ImplementsList == ArrayPromise!Spec

\* The array is a list with holes, and stays in its block but for three calls
\* (xarray.c).
ListIsKept == []ElementsFit /\ StaysContained /\ ImplementsList

=============================================================================
