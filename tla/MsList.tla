------------------------------- MODULE MsList -------------------------------
(***************************************************************************)
(* libs/msstd/thread_ex.c: the linked list and its iterator, node by node. *)
(* The field node of the list is the place Root, so that next holds every  *)
(* pointer there is; prev of an iterator is the place it came by.  One     *)
(* thread uses a list.  Callers step an iterator that has an element, and  *)
(* get a new one after they changed the list behind its back.              *)
(***************************************************************************)
EXTENDS Integers, Sequences, FiniteSets

CONSTANTS Node,       \* addresses of nodes (bound: as many as there are)
          Root, NULL,
          Elem,
          Positions,
          RemoveDisplaced  \* do callers remove at an iterator right after they
                           \* added an element at its place?

ASSUME ListConstantsOK ==
  /\ IsFiniteSet(Node) /\ Root \notin Node /\ NULL \notin Node \cup {Root}
  /\ Positions \subseteq Int /\ RemoveDisplaced \in BOOLEAN

VARIABLES next, elem,   \* of each node
          nb_elt,
          live,         \* nodes that are allocated
          actual, prev, pos, \* the iterator
          iter,         \* does it belong to the list?
          res,          \* what the last call returned
          displaced     \* not in the code: does something stand between prev
                        \* and actual?

listVars == <<next, elem, nb_elt, live, actual, prev, pos, iter, res, displaced>>
iterVars == <<actual, prev, pos, iter, displaced>>

ListInit ==
  /\ next = [n \in Node \cup {Root} |-> NULL]
  /\ elem \in [Node -> {NULL}]
  /\ nb_elt = 0 /\ live = {} /\ res = 0
  /\ actual = NULL /\ prev = Root /\ pos = 0 /\ iter = FALSE /\ displaced = FALSE

\* The nodes from the root on.
Chain ==
  LET walk[n \in 0 .. Cardinality(Node)] ==
        IF n = 0 THEN <<>>
        ELSE LET c == walk[n - 1]
                 last == IF c = <<>> THEN Root ELSE c[Len(c)]
             IN  IF next[last] = NULL THEN c ELSE Append(c, next[last])
  IN  walk[Cardinality(Node)]

\* The pointer that leads to the element with index i.
Place(i) == IF i = 0 THEN Root ELSE Chain[i]

HasElem(a, p, n) == a # NULL /\ p < n
ElemAt(n) == IF n = NULL THEN NULL ELSE elem[n]
NoIterator == iter' = FALSE /\ UNCHANGED <<actual, prev, pos, displaced>>

\* ms_free of a set of nodes, given where the pointers lead otherwise.  Nobody
\* looks at what is left in them.
FreeNodes(gone, links) ==
  /\ live' = live \ gone
  /\ next' = [n \in DOMAIN next |-> IF n \in gone THEN NULL ELSE links[n]]
  /\ elem' = [n \in Node |-> IF n \in gone THEN NULL ELSE elem[n]]

-----------------------------------------------------------------------------
(* ms_list_add, ms_list_get, ms_list_remove, ms_list_special_free *)

\* The end for -1 and beyond; other negative positions end up behind the first.
Index(p) == IF nb_elt = 0 THEN 0
            ELSE IF p = -1 \/ p >= nb_elt THEN nb_elt
            ELSE IF p < 0 THEN 1 ELSE p

LinkNode(e, i) ==
  \E n \in Node \ live :
    /\ live' = live \cup {n}
    /\ next' = [next EXCEPT ![n] = next[Place(i)], ![Place(i)] = n]
    /\ elem' = [elem EXCEPT ![n] = e]
    /\ nb_elt' = nb_elt + 1 /\ res' = nb_elt + 1

ListAdd(e, p) == LinkNode(e, Index(p)) /\ NoIterator

\* ms_malloc returns 0.
ListAddFails == res' = -1 /\ UNCHANGED <<next, elem, nb_elt, live, iterVars>>

ListGet(p) ==
  /\ res' = IF p \in 0 .. nb_elt - 1 THEN elem[Chain[p + 1]] ELSE NULL
  /\ UNCHANGED <<next, elem, nb_elt, live, iterVars>>

ListRemove(p) ==
  /\ p \in 0 .. nb_elt - 1
  /\ LET gone == next[Place(p)]
     IN  FreeNodes({gone}, [next EXCEPT ![Place(p)] = next[gone]])
  /\ nb_elt' = nb_elt - 1 /\ res' = nb_elt - 1
  /\ NoIterator

ListRemoveNone(p) ==
  /\ p \notin 0 .. nb_elt - 1 /\ res' = -1
  /\ UNCHANGED <<next, elem, nb_elt, live>> /\ NoIterator

\* Get and remove the first until none is left, and then a new ms_list_init.
ListFree ==
  /\ FreeNodes({Chain[i] : i \in DOMAIN Chain}, [next EXCEPT ![Root] = NULL])
  /\ nb_elt' = 0 /\ res' = 0
  /\ NoIterator

-----------------------------------------------------------------------------
(* The iterator *)

ListFirst ==
  /\ IF nb_elt <= 0
     THEN /\ actual' = NULL /\ iter' = FALSE /\ res' = NULL
          /\ UNCHANGED <<prev, pos, displaced>>
     ELSE /\ actual' = next[Root] /\ prev' = Root /\ pos' = 0
          /\ iter' = TRUE /\ displaced' = FALSE
          /\ res' = elem[next[Root]]
  /\ UNCHANGED <<next, elem, nb_elt, live>>

\* A mistake, used by no specification: prev stays behind.
IterNextKeepsPrev ==
  /\ iter /\ actual # NULL
  /\ pos' = pos + 1 /\ displaced' = FALSE
  /\ actual' = IF HasElem(next[actual], pos + 1, nb_elt) THEN next[actual] ELSE NULL
  /\ res' = ElemAt(actual')
  /\ UNCHANGED <<next, elem, nb_elt, live, iter, prev>>

IterNext ==
  /\ iter /\ actual # NULL
  /\ prev' = actual /\ pos' = pos + 1 /\ displaced' = FALSE
  /\ actual' = IF HasElem(next[actual], pos + 1, nb_elt) THEN next[actual] ELSE NULL
  /\ res' = ElemAt(actual')
  /\ UNCHANGED <<next, elem, nb_elt, live, iter>>

IterRemove ==
  /\ iter /\ (displaced => RemoveDisplaced)
  /\ IF HasElem(actual, pos, nb_elt)
     THEN /\ nb_elt' = nb_elt - 1
          /\ FreeNodes({actual}, [next EXCEPT ![prev] = next[actual]])
          /\ actual' = next[actual]
     ELSE UNCHANGED <<nb_elt, next, elem, live, actual>>
  /\ res' = IF HasElem(actual', pos, nb_elt') THEN elem[actual'] ELSE NULL
  /\ UNCHANGED <<prev, pos, iter, displaced>>

\* A mistake, used by no specification: the position stays when something is
\* added before it.
IterAddKeepsPos(e, p) ==
  /\ iter /\ p >= -1
  /\ LinkNode(e, Index(p))
  /\ displaced' = (displaced \/ (Index(p) = pos /\ actual # NULL))
  /\ UNCHANGED <<actual, prev, iter, pos>>

\* actual stays on its element, pos follows it, prev does not.
IterAdd(e, p) ==
  /\ iter /\ p >= -1
  /\ LinkNode(e, Index(p))
  /\ pos' = IF Index(p) <= pos THEN pos + 1 ELSE pos
  /\ displaced' = (displaced \/ (Index(p) = pos /\ actual # NULL))
  /\ UNCHANGED <<actual, prev, iter>>

-----------------------------------------------------------------------------
ListNext ==
  \/ \E e \in Elem, p \in Positions : ListAdd(e, p) \/ IterAdd(e, p)
  \/ \E p \in Positions : ListGet(p) \/ ListRemove(p) \/ ListRemoveNone(p)
  \/ ListAddFails \/ ListFree \/ ListFirst \/ IterNext \/ IterRemove

ListSpecification == ListInit /\ [][ListNext]_listVars

-----------------------------------------------------------------------------
(* The properties. *)

Places == Node \cup {Root}

\* The variables stay in their sets; the nodes of the chain are the live ones,
\* each once, and its pointers end in NULL.
ListIntact ==
  /\ next \in [Places -> Node \cup {NULL}] /\ elem \in [Node -> Elem \cup {NULL}]
  /\ nb_elt \in 0 .. Cardinality(Node)
  /\ LET c == Chain IN live = {c[i] : i \in DOMAIN c} /\ Cardinality(live) = Len(c)
  /\ actual \in Node \cup {NULL} /\ prev \in Places /\ pos \in Nat
  /\ iter \in BOOLEAN /\ displaced \in BOOLEAN

(* "nb_elt: Number of element in the list" (msstd.h:251). *)
NbEltCounts == nb_elt = Len(Chain)

Contents == LET c == Chain IN [i \in DOMAIN c |-> elem[c[i]]]

Abstract == INSTANCE ListSpec
  WITH seq <- Contents,
       cur <- IF iter THEN pos + 1 ELSE 0

(* The list and its iterator are a sequence with a position, whatever is added
   and removed around the iterator, as long as no caller removes at a place
   where it has just added (thread_ex.c:428-643). *)
SequenceSpec == Abstract!Spec
=============================================================================
