---------------------------- MODULE MCFilterTrace ----------------------------
(* A small instance of FilterTrace for TLC. *)
EXTENDS FilterTrace

E(proc, kind, func) == [proc |-> proc, kind |-> kind, func |-> func]
P(id, parent) == [id |-> id, parent |-> parent]

\* Three processes and a thread of the first one, which call f and g, and a process
\* without events
MCProcs == <<P(1, 0), P(2, 0), P(3, 0), P(7, 1)>>
MCSilent == <<P(1, 0), P(2, 0), P(3, 0), P(4, 0)>>
MCEvents ==
  <<E(1, "enter", "f"), E(2, "enter", "g"), E(1, "enter", "g"), E(2, "enter", "f"),
    E(1, "message", "-"), E(2, "operation", "-"), E(1, "comment", "-"), E(1, "leave", "g"), E(1, "operation", "-"),
    E(2, "leave", "f"), E(1, "leave", "f"), E(2, "enter", "f"), E(1, "enter", "f"),
    E(2, "message", "-"), E(2, "leave", "f"), E(1, "leave", "f"), E(1, "message", "-"),
    E(2, "leave", "g"), E(7, "enter", "f"), E(3, "enter", "g"), E(7, "leave", "f"),
    E(3, "operation", "-"), E(3, "leave", "g")>>

\* Global rules, rules of ranks, ranks that are off, and a line that is no rule.
MCRules ==
  {<<Rule({"f"}, 1), At({0}, FALSE), Rule({"g"}, 0), Rule({"f"}, 0), At({1}, FALSE), Rule({"f", "g"}, -1)>>,
   <<Rule({"f"}, -1), Rule({"f", "g"}, 0), At({0}, TRUE), Rule({"g"}, 5)>>,
   <<At({0, 2}, FALSE), Rule({"f"}, 1), At({2}, TRUE), Garbage, Rule({"g"}, 0)>>}

\* All processes, a node and a communicator
MCGroups(procs) == {{p.id : p \in ToSet(procs)} \cap g : g \in {1 .. 7, {1, 7}, {3}}} \ {{}}

MCConf(procs, rules, ranks, input, max, batch, progress, eager) ==
  [procs |-> procs, groups |-> MCGroups(procs), events |-> MCEvents, stats |-> batch % 2,
   rules |-> rules, ranks |-> ranks, input |-> input, max |-> max, batch |-> batch,
   progress |-> progress, eager |-> eager, unchecked |-> FALSE]

MCFirst == CHOOSE rules \in MCRules : Garbage \in ToSet(rules)

\* All rules without progress, and some of them with it.
MCConfs ==
  {MCConf(MCProcs, rules, n[1], n[2], n[3], n[4], FALSE, TRUE) :
     rules \in MCRules, n \in {<<1, 2, 0, 8>>, <<2, 1, 0, 8>>, <<2, 3, 3, 9>>, <<2, 1, 1, 8>>, <<3, 2, 0, 9>>}}
  \cup {MCConf(MCProcs, rules, 2, n[1], n[2], n[3], TRUE, TRUE) :
          rules \in MCRules, n \in {<<1, 0, 8>>, <<1, 0, 4>>, <<3, 3, 9>>, <<1, 1, 8>>}}
  \cup {MCConf(MCProcs, MCFirst, 1, 2, 0, 9, TRUE, TRUE),
        MCConf(MCProcs, MCFirst, 3, 2, 0, 8, TRUE, TRUE),
        MCConf(MCSilent, <<Rule({"g"}, 0)>>, 2, 2, 2, 8, TRUE, TRUE),
        MCConf(MCProcs, <<Rule({"g"}, 0)>>, 2, 2, 2, 9, TRUE, FALSE),
        [MCConf(MCSilent, <<Rule({"f"}, 1)>>, 2, 2, 0, 9, FALSE, TRUE) EXCEPT !.unchecked = TRUE],
        MCConf(<<P(1, 0)>>, <<At({0}, TRUE)>>, 2, 1, 0, 8, TRUE, TRUE)}

\* The worker's last stream has only the process without events.
MCEmptyStream == {MCConf(MCSilent, <<Rule({"g"}, 0)>>, 2, 4, 4, 4, TRUE, TRUE)}
=============================================================================
