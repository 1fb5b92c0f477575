--------------------------- MODULE ResolveOutcome ---------------------------
(***************************************************************************)
(* What phase 6 promises (the resolver's contract, with no stack and no    *)
(* order): every instance is filed once, as resolved, as failed by its own *)
(* body, or as blocked on the root cause it inherits, and what it is filed *)
(* as depends only on the instances its body refers to.                    *)
(***************************************************************************)
EXTENDS Naturals, Sequences, Functions

CONSTANTS DeclOrder,  \* the declared instances, in the order of the file
          NoRoot,     \* the instance is not blocked
          Body        \* the bodies an instance may have

Instance == Range(DeclOrder)

VARIABLES body,     \* body[n]: n's steps in order: a name copied from, or a
                    \* step that fails by itself
          cache,    \* instances resolved
          errors,   \* instances with an error of their own
          blocked   \* blocked[n]: the failed instance n is blocked on

vars == <<body, cache, errors, blocked>>

Blocked == {n \in Instance : blocked[n] # NoRoot}
Filed == cache \cup errors \cup Blocked

(* The root cause a reader of the failed instance m inherits. *)
RootOf(m) == IF m \in errors THEN m ELSE blocked[m]

(* Every step of n's body before the i-th copies a resolved instance. *)
ReachesStep(n, i) == \A j \in 1 .. i - 1 : body[n][j] \in cache

Init ==
  /\ body \in [Instance -> Body]
  /\ cache = {}
  /\ errors \in SUBSET Instance
  /\ blocked = [n \in Instance |-> NoRoot]

Resolve(n) ==
  /\ ReachesStep(n, Len(body[n]) + 1)
  /\ cache' = cache \cup {n}
  /\ UNCHANGED <<body, errors, blocked>>

FailBy(n, i) ==
  /\ ReachesStep(n, i)
  /\ body[n][i] \notin Instance
  /\ errors' = errors \cup {n}
  /\ UNCHANGED <<body, cache, blocked>>

BlockBy(n, i) ==
  /\ ReachesStep(n, i)
  /\ body[n][i] \in errors \cup Blocked
  /\ blocked' = [blocked EXCEPT ![n] = RootOf(body[n][i])]
  /\ UNCHANGED <<body, cache, errors>>

Next ==
  \E n \in Instance \ Filed :
    \/ Resolve(n)
    \/ \E i \in DOMAIN body[n] : FailBy(n, i) \/ BlockBy(n, i)

Spec == Init /\ [][Next]_vars /\ WF_vars(Next)
=============================================================================
