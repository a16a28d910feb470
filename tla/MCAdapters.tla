----------------------------- MODULE MCAdapters -----------------------------
(* Both native clients are signed in with the same account at first.       *)
(* Corner keeps the instance small: a third request, and an account that   *)
(* is given a second canonical key, are looked at for OpenAI alone, and    *)
(* the third request where no sign-in has changed.                         *)
EXTENDS Adapters, TLC

CONSTANTS a, b, id, other

MCSignedIn == [p \in Provider |-> a]

OpenAIOnly == ~saved["claude"] /\ ~enabled["claude"]
Renamed == \E x \in Account : other \in {aliases[x], savedAliases[x]} \/ <<x, other>> \in records

Corner ==
  /\ requests = 3 => OpenAIOnly /\ switches = 0 /\ ~Renamed
  /\ Renamed => OpenAIOnly
=============================================================================
