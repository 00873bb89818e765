-------------------------------- MODULE XList --------------------------------
(* The linked lists of src/include/xlist.h, src/src/xlist.c and             *)
(* src/src/eloop/list.h: rings of nodes through a head, linked both ways.   *)
(* An operator of C is a function of the memory, its assignments in their   *)
(* order.  What is compiled out of xlist.h (#if 0) is left out.             *)
EXTENDS Integers, Sequences, FiniteSets, FiniteSetsExt, SequencesExt

CONSTANTS
  Heads, Links, \* heads of lists, and nodes to be linked
  NoLink        \* NULL

ASSUME LinksAssumption ==
  Heads \cap Links = {} /\ NoLink \notin Heads \cup Links /\ IsFiniteSet(Links)

VARIABLES
  links, \* next and prev of every head and node
  spent, \* history: heads whose list has been given away
  call,  \* history: the last call that may change a list, and its arguments
  walk,  \* dl_list_for_each_safe: the head, the node it is at, the next one
  met,   \* history: the nodes that the walk has come to
  due    \* history: the nodes that it set out for
listVars == <<links, spent, call, walk, met, due>>

Cells == Heads \cup Links

-----------------------------------------------------------------------------
(* The functions *)
INIT_XLIST_HEAD(m, list) == [m EXCEPT !.next[list] = list, !.prev[list] = list]

__xlist_add(m, new, prev, next) ==
  [m EXCEPT !.prev[next] = new, !.next[new] = next, !.prev[new] = prev, !.next[prev] = new]

\* Mutant: at the other end.
xlist_addLast(m, new, head) == __xlist_add(m, new, m.prev[head], head)

xlist_add(m, new, head) == __xlist_add(m, new, head, m.next[head])
xlist_add_tail(m, new, head) == __xlist_add(m, new, m.prev[head], head)

\* Mutant: the link back is forgotten.
__xlist_delOneWay(m, prev, next) == [m EXCEPT !.next[prev] = next]

__xlist_del(m, prev, next) == [m EXCEPT !.prev[next] = prev, !.next[prev] = next]
xlist_del(m, entry) ==
  [__xlist_del(m, m.prev[entry], m.next[entry]) EXCEPT !.next[entry] = NoLink, !.prev[entry] = NoLink]

xlist_empty(m, head) == m.next[head] = head
xlist_empty_careful(m, head) == m.next[head] = head /\ m.next[head] = m.prev[head]
xlist_is_singular(m, head) == ~xlist_empty(m, head) /\ m.next[head] = m.prev[head]

__xlist_cut_position(m, list, head, entry) ==
  LET new_first == m.next[entry]
  IN [m EXCEPT !.next[list] = m.next[head], !.prev[m.next[head]] = list, !.prev[list] = entry,
               !.next[entry] = list, !.next[head] = new_first, !.prev[new_first] = head]

xlist_cut_position(m, list, head, entry) ==
  CASE \/ xlist_empty(m, head)
       \/ xlist_is_singular(m, head) /\ m.next[head] # entry /\ head # entry -> m
    [] ~xlist_empty(m, head) /\ entry = head -> INIT_XLIST_HEAD(m, list)
    [] OTHER -> __xlist_cut_position(m, list, head, entry)

__xlist_splice(m, list, prev, next) ==
  LET first == m.next[list]
      last  == m.prev[list]
  IN [m EXCEPT !.prev[first] = prev, !.next[prev] = first, !.next[last] = next, !.prev[next] = last]

xlist_splice(m, list, head) ==
  IF xlist_empty(m, list) THEN m ELSE __xlist_splice(m, list, head, m.next[head])
xlist_splice_tail(m, list, head) ==
  IF xlist_empty(m, list) THEN m ELSE __xlist_splice(m, list, m.prev[head], head)
xlist_splice_init(m, list, head) ==
  IF xlist_empty(m, list) THEN m ELSE INIT_XLIST_HEAD(xlist_splice(m, list, head), list)
xlist_splice_tail_init(m, list, head) ==
  IF xlist_empty(m, list) THEN m ELSE INIT_XLIST_HEAD(xlist_splice_tail(m, list, head), list)

xlist_get(m, head) == IF xlist_empty(m, head) THEN m ELSE xlist_del(m, m.next[head])

dl_list_add(m, list, item) ==
  [m EXCEPT !.next[item] = m.next[list], !.prev[item] = list, !.prev[m.next[list]] = item, !.next[list] = item]
dl_list_add_tail(m, list, item) == dl_list_add(m, m.prev[list], item)
dl_list_del(m, item) ==
  [m EXCEPT !.prev[m.next[item]] = m.prev[item], !.next[m.prev[item]] = m.next[item],
            !.next[item] = NoLink, !.prev[item] = NoLink]

-----------------------------------------------------------------------------
(* Lists as they are read, by one of the links *)
Round(link, h) ==
  LET most == Cardinality(Links) + 1
      cell[k \in 0 .. most] ==
        IF k = 0 THEN h ELSE IF cell[k - 1] = NoLink THEN NoLink ELSE link[cell[k - 1]]
      ends == {k \in 1 .. most : cell[k] = h}
  IN IF ends = {} THEN <<NoLink>> ELSE [k \in 1 .. Min(ends) - 1 |-> cell[k]]
ListOf(h) == Round(links.next, h)
dl_list_len(h) == Len(ListOf(h))

Usable == Heads \ spent
Loose == {n \in Links : links.next[n] = NoLink}
NoWalk == [head |-> NoLink, item |-> NoLink, n |-> NoLink]

-----------------------------------------------------------------------------
(* What a program does with them *)
ListInit ==
  /\ links = [next |-> [c \in Cells |-> IF c \in Heads THEN c ELSE NoLink],
              prev |-> [c \in Cells |-> IF c \in Heads THEN c ELSE NoLink]]
  /\ spent = {} /\ call = <<"none">> /\ walk = NoWalk /\ met = <<>> /\ due = <<>>

NotWalking == walk = NoWalk /\ UNCHANGED <<walk, met, due>>

AddLink(h, n) ==
  /\ NotWalking /\ n \in Loose /\ h \in Usable
  /\ \/ links' \in {xlist_add(links, n, h), dl_list_add(links, h, n)} /\ call' = <<"add", h, n>>
     \/ /\ links' \in {xlist_add_tail(links, n, h), dl_list_add_tail(links, h, n)}
        /\ call' = <<"add_tail", h, n>>
  /\ UNCHANGED spent

DelLink(n) ==
  /\ NotWalking /\ n \notin Loose /\ call' = <<"del", n>>
  /\ links' \in {xlist_del(links, n), dl_list_del(links, n)}
  /\ UNCHANGED spent

GetLink(h) ==
  /\ NotWalking /\ h \in Usable /\ call' = <<"get", h>>
  /\ links' = xlist_get(links, h) /\ UNCHANGED spent

\* entry is in the list of h, or h; list holds nothing that is still wanted.
CutList(list, h, entry) ==
  /\ NotWalking /\ h \in Usable /\ list # h /\ call' = <<"cut", list, h, entry>>
  /\ list \in Usable => xlist_empty(links, list)
  /\ entry \in {h} \cup ToSet(ListOf(h))
  /\ links' = xlist_cut_position(links, list, h, entry)
  /\ spent' = IF xlist_empty(links, h) THEN spent ELSE spent \ {list}

\* Without the init the head of list still points into the other one.
Given(list) == spent' = IF xlist_empty(links, list) THEN spent ELSE spent \cup {list}

SpliceList(list, h) ==
  /\ NotWalking /\ {h, list} \subseteq Usable /\ list # h
  /\ \/ call' = <<"splice", list, h>> /\ links' = xlist_splice(links, list, h) /\ Given(list)
     \/ call' = <<"splice_tail", list, h>> /\ links' = xlist_splice_tail(links, list, h) /\ Given(list)
     \/ call' = <<"splice", list, h>> /\ links' = xlist_splice_init(links, list, h) /\ UNCHANGED spent
     \/ /\ call' = <<"splice_tail", list, h>> /\ links' = xlist_splice_tail_init(links, list, h)
        /\ UNCHANGED spent

InitHead(h) ==
  /\ NotWalking /\ h \in spent /\ call' = <<"init", h>>
  /\ links' = INIT_XLIST_HEAD(links, h) /\ spent' = spent \ {h}

\* dl_list_for_each_safe: the next node is read before the body runs.
StartWalk(h) ==
  LET item == links.next[h]
  IN /\ walk = NoWalk /\ h \in Usable /\ item # h
     /\ walk' = [head |-> h, item |-> item, n |-> links.next[item]]
     /\ met' = <<item>> /\ due' = ListOf(h)
     /\ UNCHANGED <<links, spent, call>>

WalkOn ==
  /\ walk # NoWalk
  /\ IF walk.n = walk.head THEN walk' = NoWalk /\ UNCHANGED met
     ELSE /\ walk' = [walk EXCEPT !.item = walk.n, !.n = links.next[walk.n]]
          /\ met' = Append(met, walk.n)
  /\ UNCHANGED <<links, spent, call, due>>

\* The body may take the node that it is called for out, and link it again:
\* before the others, or into another list.
TakeOut ==
  /\ walk # NoWalk /\ walk.item \notin Loose
  /\ LET without == dl_list_del(links, walk.item)
     IN \/ links' = without /\ call' = <<"del", walk.item>>
        \/ /\ links' = dl_list_add(without, walk.head, walk.item)
           /\ call' = <<"move", walk.item, walk.head>>
        \/ \E h \in Usable \ {walk.head} :
             links' = dl_list_add_tail(without, h, walk.item) /\ call' = <<"move_tail", walk.item, h>>
  /\ UNCHANGED <<spent, walk, met, due>>

ListNext ==
  \/ \E h \in Heads :
       \/ GetLink(h) \/ InitHead(h) \/ StartWalk(h)
       \/ \E n \in Links : AddLink(h, n)
       \/ \E list \in Heads : SpliceList(list, h) \/ \E entry \in Cells : CutList(list, h, entry)
  \/ \E n \in Links : DelLink(n)
  \/ WalkOn \/ TakeOut

ListSpec == ListInit /\ [][ListNext]_listVars

-----------------------------------------------------------------------------
\* Every list reads the same in both directions, the tests of it agree with
\* what it holds, and a node that is in none has no links, so that taking it
\* out twice cannot damage a list (xlist.h:23-319, list.h:25-60).  A walk that
\* has ended has come to every node it set out for, once and in their order,
\* though its body has taken them out (list.h:82-87).
ListsAreLinked ==
  /\ \A h \in Usable :
       /\ Round(links.prev, h) = Reverse(ListOf(h))
       /\ xlist_empty(links, h) <=> dl_list_len(h) = 0
       /\ xlist_empty_careful(links, h) <=> xlist_empty(links, h)
       /\ xlist_is_singular(links, h) <=> dl_list_len(h) = 1
  /\ \A n \in Links :
       /\ n \in Loose <=> links.prev[n] = NoLink
       /\ n \notin Loose => Cardinality({h \in Usable : n \in ToSet(ListOf(h))}) = 1
  /\ IF walk = NoWalk THEN met = due ELSE IsPrefix(met, due)

AsSequences == [h \in Heads |-> IF h \in spent THEN <<>> ELSE ListOf(h)]

ListsPromise == INSTANCE ListStore WITH Items <- Links, lists <- AsSequences

\* The links are sequences, one for each head, and every call changes them as
\* ListStore says of a call of that name with those arguments, so that none is
\* put at the wrong end, and none is left undone (xlist.h:55-319).
ImplementsLists == ListsPromise!Spec
=============================================================================
