---------------------------- MODULE MCAutomation ----------------------------
EXTENDS Automation, TLC

CONSTANTS d1, d2, d3, d4, here, there

Do(op, to, sep) ==
  [is |-> IF op \in {"packet", "command"} THEN op ELSE "instruction",
   does |-> [op |-> op, to |-> to], sep |-> sep]

(* d1 calls a routine that shows a bar and waits, has a player moved in, and goes on with
   d2; d2 loops; d3 is empty; d4 waits and starts itself again. *)
Descs ==
  (d1 :> << Do("goto", 1, "nl"), Do("command", Summon, "nl"), Do("set", None, "%"),
            Do("command", d2, "%"), Do("label", 1, "nl"), Do("packet", None, "%"),
            Do("wait", 1, "nl"), Do("return", None, "nl") >>)
  @@ (d2 :> << Do("label", 1, "nl"), Do("set", None, "nl"), Do("if", 1, "nl"), Do("command", d3, "%") >>)
  @@ (d3 :> << [is |-> "unknown", does |-> None, sep |-> "nl"] >>)
  @@ (d4 :> << Do("wait", 2, "nl"), Do("command", d4, "%") >>)

Adjust == {-2, 1}

=============================================================================
