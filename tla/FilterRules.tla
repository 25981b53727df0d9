----------------------------- MODULE FilterRules -----------------------------
(***************************************************************************)
(* Filter files (rfg/rfg_filter.c): which rules apply to a rank, and how   *)
(* many calls of a function they let through. A file is a sequence of      *)
(* lines, parsed already: names of functions with a limit, a selection of  *)
(* ranks, or what cannot be parsed. The patterns are the sets of functions *)
(* they match.                                                             *)
(***************************************************************************)
EXTENDS Integers, Sequences, SequencesExt

Rule(functions, limit) == [kind |-> "rule", functions |-> functions, limit |-> limit]
At(ranks, off) == [kind |-> "at", ranks |-> ranks, off |-> off]
Garbage == [kind |-> "garbage"]

NoRank == -1      \* the global rules only
Unlimited == -1   \* the default call limit

\* The reader is at a line: what it has added, whether its rank is included,
\* and whether it goes on.
Reading == [assigns |-> << >>, included |-> TRUE, off |-> FALSE, on |-> TRUE]

\* RFG_Filter_add. A limit of N is kept as N + 1, since the call limit is
\* decremented before it is tested.
RFG_Filter_add(f, line) ==
  [f EXCEPT !.assigns = Append(@, [functions |-> line.functions,
     climit |-> IF line.limit \in {-1, 0} THEN line.limit ELSE line.limit + 1])]

\* Reading ends at the first selection if no rank is given, at one that switches
\* the rank off, and (without an error) at a line that cannot be parsed.
ReadLine(f, line, rank) ==
  CASE ~f.on -> f
    [] line.kind = "garbage" -> [f EXCEPT !.on = FALSE]
    [] line.kind = "at" /\ rank = NoRank -> [f EXCEPT !.on = FALSE]
    [] line.kind = "at" /\ rank # NoRank ->
         [f EXCEPT !.included = rank \in line.ranks,
                   !.off = line.off /\ rank \in line.ranks,
                   !.on = ~(line.off /\ rank \in line.ranks)]
    [] line.kind = "rule" -> IF f.included THEN RFG_Filter_add(f, line) ELSE f

\* op over a sequence from the left, each result evaluated once.
Folded(op(_, _), base, seq) ==
  FoldLeft(LAMBDA a, x : CHOOSE b \in {op(a1, x) : a1 \in {a}} : TRUE, base, seq)

RFG_Filter_readDefFile(file, rank) ==
  Folded(LAMBDA f, line : ReadLine(f, line, rank), Reading, file)

\* The first assignment that matches, else the default.
RFG_Filter_get(f, func) ==
  LET matching == {i \in DOMAIN f.assigns : func \in f.assigns[i].functions}
  IN IF matching = {} THEN Unlimited
     ELSE f.assigns[CHOOSE i \in matching : \A j \in matching : i <= j].climit

------------------------------------------------------------------------------
(* What a filter file means. *)

\* The selection a line stands under, 0 if it is a global one.
Clause(file, i) ==
  LET ats == {j \in 1 .. i : file[j].kind = "at"}
  IN IF ats = {} THEN 0 ELSE CHOOSE j \in ats : \A k \in ats : k <= j

Parsed(file, i) == \A j \in 1 .. i : file[j].kind # "garbage"

SwitchedOff(file, rank) ==
  \E i \in DOMAIN file : /\ Parsed(file, i) /\ file[i].kind = "at"
                         /\ file[i].off /\ rank \in file[i].ranks

\* The lines that limit a function on a rank: only the first one counts.
Limiting(file, rank, func) ==
  {i \in DOMAIN file :
     /\ Parsed(file, i) /\ file[i].kind = "rule" /\ func \in file[i].functions
     /\ Clause(file, i) # 0 => rank \in file[Clause(file, i)].ranks}

\* Whether the n-th call of a function is recorded.
Admits(file, rank, func, n) ==
  \A i \in Limiting(file, rank, func) :
    (\A j \in Limiting(file, rank, func) : i <= j)
      => file[i].limit = -1 \/ n <= file[i].limit
==============================================================================
