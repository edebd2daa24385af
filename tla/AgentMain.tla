------------------------------ MODULE AgentMain -----------------------------
(***************************************************************************)
(* The command line of the agent (main.cpp): from the arguments of main to *)
(* those of Agent::create.                                                 *)
(*                                                                         *)
(* An argument is the sequence of its words: a launch file may put several *)
(* words in one argument.                                                  *)
(***************************************************************************)
EXTENDS Naturals, SequencesExt

RosArgs == <<"--ros-args">>

\* std::find of the flag: its position, or the one past the end.
FlagPosition(args) ==
  LET at == SelectInSeq(args, LAMBDA arg : arg = RosArgs)
  IN  IF at = 0 THEN Len(args) + 1 ELSE at

\* A plausible bug: the loop stores an argument before it looks at it.
ParamsWithFlag(argv) ==
  SubSeq(argv, 1, IF FlagPosition(argv) > Len(argv) THEN Len(argv) ELSE FlagPosition(argv))

\* What the loop stores: it ends at the flag, before it stores it.
Params(argv) == SubSeq(argv, 1, FlagPosition(argv) - 1)

\* argc after the loop.
Argc(argv) == FlagPosition(argv) - 1

\* std::istringstream: an argument for each word.
Split(arg) == [i \in 1..Len(arg) |-> <<arg[i]>>]

\* main returns before it calls Agent::create: no arguments at all.
Refused == <<>>

\* The arguments that Agent::create gets, or Refused.
CreateArguments(argv) ==
  LET params == Params(argv)
      flag   == FlagPosition(params)
  IN  IF flag <= Len(params)
      THEN IF flag = 3 THEN <<argv[1]>> \o Split(params[2]) ELSE Refused
      ELSE SubSeq(argv, 1, Argc(argv))
=============================================================================
