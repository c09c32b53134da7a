------------------------- MODULE ManagerAllowList -------------------------
(***************************************************************************)
(* The two lists that a GraphTokenLockManager keeps for its wallets: which *)
(* target answers a forwarded function signature, and which contracts the  *)
(* wallets may approve to pull tokens.  Operators on the value of the two  *)
(* lists; the modules that own a manager turn them into actions.  Only the *)
(* manager's owner may change its lists.                                   *)
(***************************************************************************)
CONSTANTS Sigs,               \* 4-byte function signatures
          ProtocolContracts,  \* contracts a manager may point to
          NoTarget            \* the zero address in authFnCalls

ASSUME NoTargetAssumption == NoTarget \notin ProtocolContracts

AllowList == [authFnCalls       : [Sigs -> ProtocolContracts \cup {NoTarget}],
              tokenDestinations : SUBSET ProtocolContracts]

EmptyAllowList == [authFnCalls       |-> [sig \in Sigs |-> NoTarget],
                   tokenDestinations |-> {}]

AuthFunctionCallTarget(list, sig) == list.authFnCalls[sig]

(* setAuthFunctionCall(): the target is a contract, and not the manager    *)
(* itself, for every member of ProtocolContracts.                          *)
WithAuthFunctionCall(list, sig, target) ==
  [list EXCEPT !.authFnCalls[sig] = target]

(* setAuthFunctionCallMany(), for signatures without repetition. *)
WithAuthFunctionCalls(list, targets) ==
  [list EXCEPT !.authFnCalls =
     [sig \in Sigs |-> IF sig \in DOMAIN targets THEN targets[sig]
                       ELSE list.authFnCalls[sig]]]

WithoutAuthFunctionCall(list, sig) ==
  [list EXCEPT !.authFnCalls[sig] = NoTarget]

CanAddTokenDestination(list, dst) == dst \notin list.tokenDestinations

WithTokenDestination(list, dst) ==
  [list EXCEPT !.tokenDestinations = @ \cup {dst}]

CanRemoveTokenDestination(list, dst) == dst \in list.tokenDestinations

WithoutTokenDestination(list, dst) ==
  [list EXCEPT !.tokenDestinations = @ \ {dst}]
=============================================================================
