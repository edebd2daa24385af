------------------------------- MODULE NodeName -----------------------------
(***************************************************************************)
(* The node of a micro-ROS client: its name and namespace, taken from the  *)
(* name of the client's participant (get_name_and_namespace,               *)
(* graph_manager.cpp:565-600).                                             *)
(*                                                                         *)
(* A string is a sequence of slashes and of other pieces, which all count  *)
(* alike.                                                                  *)
(***************************************************************************)
EXTENDS Naturals, SequencesExt

Slash == <<"/">>

\* One character more: std::getline ends a token at a slash.
Read(acc, ch) ==
  IF ch = "/" THEN [done |-> Append(acc.done, acc.token), token |-> <<>>]
  ELSE [done |-> acc.done, token |-> Append(acc.token, ch)]

\* Tokens that std::getline reads: an empty one after the last slash is none.
Segments(s) ==
  LET Reading[i \in 0..Len(s)] ==
        IF i = 0 THEN [done |-> <<>>, token |-> <<>>] ELSE Read(Reading[i - 1], s[i])
      end == Reading[Len(s)]
  IN  IF end.token = <<>> THEN end.done ELSE Append(end.done, end.token)

\* Segments with a slash after each.
WithSlashes(segments) ==
  LET Appending[i \in 0..Len(segments)] ==
        IF i = 0 THEN <<>> ELSE Appending[i - 1] \o segments[i] \o Slash
  IN  Appending[Len(segments)]

\* The slash too many is taken off again.
Join(segments) == Front(WithSlashes(segments))

WithoutFirstSlash(s) == IF IsPrefix(Slash, s) THEN Tail(s) ELSE s

\* A plausible bug: the namespace takes a segment that the node name has too.
NodeFromFirstSegment(s) ==
  LET path     == WithoutFirstSlash(s)
      segments == Segments(path)
  IN  IF Len(segments) > 1
      THEN [namespace |-> Slash \o segments[1], name |-> Join(segments)]
      ELSE [namespace |-> Slash, name |-> path]

NameAndNamespace(s) ==
  LET path     == WithoutFirstSlash(s)
      segments == Segments(path)
  IN  IF Len(segments) > 1
      THEN [namespace |-> Slash \o segments[1], name |-> Join(Tail(segments))]
      ELSE [namespace |-> Slash, name |-> path]
=============================================================================
