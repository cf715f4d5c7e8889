----------------------------- MODULE MCAccounts -----------------------------
(* Accounts with an administrator and a plain account, for TLC.            *)
EXTENDS Accounts, TLC

MCSymmetry == Permutations(Requests)

\* A call with nothing set but what the operation needs.
Plain(op, who) ==
  [op |-> op, who |-> who, isAdmin |-> "keep", disable |-> "keep",
   granularity |-> "GLOBAL", target |-> NoTarget, knows |-> TRUE]

With(c, granularity, target) ==
  [c EXCEPT !.granularity = granularity, !.target = target]

\* Calls that conflict with each other, in any interleaving of the requests.
MCConflictingCalls ==
  {Plain("login", "ann"),
   [Plain("update", "ann") EXCEPT !.disable = "on"],
   [Plain("update", "ann") EXCEPT !.isAdmin = "off", !.disable = "off"],
   [Plain("update", "bob") EXCEPT !.isAdmin = "off"],
   Plain("reset", "ann"), Plain("subscribe", "ann"), Plain("unsubscribe", "ann"),
   Plain("adminUnsubscribe", "ann")}

\* Calls that set the stage for those, or are refused.
MCOpeningCalls ==
  {Plain("logout", "ann"), Plain("adminSubscribe", "ann"),
   [Plain("update", "bob") EXCEPT !.isAdmin = "on"],
   Plain("read", "ann"), Plain("adminRead", "ann"), Plain("create", "ann"),
   [Plain("create", "eve") EXCEPT !.isAdmin = "on"],
   [Plain("update", "eve") EXCEPT !.isAdmin = "on"], Plain("update", "bob"),
   Plain("reset", "eve"), Plain("adminSubscribe", "eve"),
   With(Plain("subscribe", "ann"), "TAG", "tag"),
   With(Plain("subscribe", "ann"), "TAG", NoTarget),
   With(Plain("subscribe", "ann"), "PIPELINE", "unknown"),
   With(Plain("adminSubscribe", "ann"), "PIPELINE", "pipe"),
   With(Plain("adminSubscribe", "ann"), "TAG", "unknown")}

MCCalls == MCConflictingCalls \union MCOpeningCalls

\* A client that comes back after a while.
MCReturningCalls == {Plain("login", "ann"), Plain("read", "ann")}

\* Opening calls come first and alone, from the account ann.
MCOpening ==
  \A r, q \in Requests :
    req[r].pc = "new" /\ req'[r].pc \notin Status \union {"new"} /\ q # r =>
      /\ req'[r].call \in MCOpeningCalls =>
           req[q].pc = "new" /\ req'[r].cookie = "ann"
      /\ req[q].call \notin MCOpeningCalls
=============================================================================
