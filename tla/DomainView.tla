----------------------------- MODULE DomainView -----------------------------
(***************************************************************************)
(* What the bookkeeping of a GraphManager promises of one domain: a view   *)
(* of every participant, its own micro-ROS clients and peers alike, that   *)
(* may be wrong only while something about that very participant is under  *)
(* way.  Of a participant about which nothing is under way the view has    *)
(*   - the nodes it announced last, if it is there and announced any;      *)
(*   - no node, if it is there and announced none;                         *)
(*   - nothing at all, if it is not there;                                 *)
(*   - exactly the endpoints it has.                                       *)
(* And what is under way about one participant never touches the view of   *)
(* another.                                                                *)
(*                                                                         *)
(* GraphManager is shown to implement this specification.                  *)
(***************************************************************************)
CONSTANTS
  Participants,
  NoNodes       \* what is shown of a participant without nodes

VARIABLES
  there,  \* the participants that exist
  said,   \* participant -> what it announced last, a set of at most one
  has,    \* participant -> its endpoints
  view,   \* participant -> the nodes shown of it, a set of at most one
  seen,   \* participant -> the endpoints shown of it
  busy    \* the participants about which something is under way

vars == <<there, said, has, view, seen, busy>>

Settled(p) ==
  /\ p \notin there => view[p] = {}
  /\ p \in there /\ said[p] = {} => view[p] \subseteq {NoNodes}
  /\ p \in there /\ said[p] # {} => view[p] = said[p]
  /\ seen[p] = has[p]

\* Nothing changes for any participant but p.
OnlyAbout(p) ==
  \A q \in Participants \ {p} :
    /\ q \in there' <=> q \in there
    /\ q \in busy' <=> q \in busy
    /\ said'[q] = said[q] /\ has'[q] = has[q]
    /\ view'[q] = view[q] /\ seen'[q] = seen[q]

Init ==
  /\ there = {} /\ busy = {}
  /\ \A p \in Participants : said[p] = {} /\ has[p] = {} /\ Settled(p)

\* p appears, leaves, announces or creates something, or its view changes.
Proceed(p) ==
  /\ p \in busy'
  /\ OnlyAbout(p)

\* The last thing under way about p is done: it adds nothing to be shown.
Settle(p) ==
  /\ p \in busy /\ p \notin busy'
  /\ p \in there' <=> p \in there
  /\ said'[p] = said[p] /\ has'[p] = has[p]
  /\ Settled(p)'
  /\ OnlyAbout(p)

Next == \E p \in Participants : Proceed(p) \/ Settle(p)

Spec == Init /\ [][Next]_vars
=============================================================================
