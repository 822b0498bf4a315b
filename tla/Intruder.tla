------------------------------ MODULE Intruder ------------------------------
(***************************************************************************)
(* The intruder: the generators (services/intruder/generator.py), the one  *)
(* IntruderEngine every attack shares (services/intruder/engine.py), and   *)
(* the runner of an attack, _run_intruder() (transport/rest/tasks.py).     *)
(* execute() makes a task of every request at once; they pass the one      *)
(* semaphore of the engine first come, first served, and take their number *)
(* from its one counter, which each attack that begins sets to zero.  The  *)
(* runner reads the results one by one as they come in (their order is     *)
(* left open).  A runner that is cancelled leaves its requests running,    *)
(* and nobody reads their results.                                         *)
(*                                                                         *)
(* The row of an attack is a matter of module TaskStore; here it is what   *)
(* its runner has come to.                                                 *)
(***************************************************************************)
EXTENDS Naturals, Sequences, FiniteSets, SequencesExt

CONSTANTS
  Attacks,
  Bases,     \* the values between the markers of the raw request, in order
  Words,     \* the wordlist
  Slots      \* concurrency the engine was built with: what an attack asks for
             \* is assigned to a field nobody reads

ASSUME IntruderAssumption ==
  Slots \in Nat \ {0} /\ Bases \in Seq(ToSet(Bases)) /\ Words \in Seq(ToSet(Words))

AttackModes == {"sniper", "cluster_bomb"}

VARIABLES
  attack,    \* [Attacks -> mode, braces: a brace in the raw request, status, results, overlapped]
  line,      \* <<attack, request>>: the tasks in line for the semaphore, then those it let in
  flying,    \* <<attack, request, number>>: those that send
  came,      \* [Attacks -> sets]: <<request, number>> that came in and were not read
  counter    \* _request_id

intruderVars == <<attack, line, flying, came, counter>>

IntruderInit ==
  /\ attack \in [Attacks -> {[mode |-> m, braces |-> b, status |-> "none", results |-> {},
                              overlapped |-> FALSE] : m \in AttackModes, b \in BOOLEAN}]
  /\ line = <<>> /\ flying = {} /\ came = [a \in Attacks |-> {}] /\ counter = 0

-----------------------------------------------------------------------------
M == Len(Bases)
W == Len(Words)

(* W ^ k, which the provers do not know. *)
Power[k \in 0 .. M] == IF k = 0 THEN 1 ELSE W * Power[k - 1]

(* Mutant: the last word of the list is never tried. *)
SniperShort ==
  [n \in 1 .. M * (W - 1) |->
     [i \in 1 .. M |-> IF i = (n - 1) \div (W - 1) + 1 THEN Words[((n - 1) % (W - 1)) + 1] ELSE Bases[i]]]

(* SniperGenerator: marker by marker, word by word. *)
Sniper ==
  [n \in 1 .. M * W |->
     [i \in 1 .. M |-> IF i = (n - 1) \div W + 1 THEN Words[((n - 1) % W) + 1] ELSE Bases[i]]]

(* ClusterBombGenerator over the same list for each marker: itertools.product. *)
ClusterBomb ==
  [n \in 1 .. Power[M] |-> [i \in 1 .. M |-> Words[(((n - 1) \div Power[M - i]) % W) + 1]]]

Generated(a) == IF attack[a].mode = "sniper" THEN Sniper ELSE ClusterBomb

(* template.format() takes a brace of the request for a field of its own. *)
Formats(a) == ~attack[a].braces

-----------------------------------------------------------------------------
Attacking(a) == attack[a].status = "running"

(* intruder_run(): a request without markers or an empty list of words is *)
(* refused; the row is there, and the runner it tracks has not begun.     *)
IntruderRun(a) ==
  /\ attack[a].status = "none" /\ Bases # <<>> /\ Words # <<>>
  /\ attack' = [attack EXCEPT ![a].status = "queued"]
  /\ UNCHANGED <<line, flying, came, counter>>

(* execute() up to its first result: the number is set to zero, the tasks *)
(* are made; a template that does not format raises at the first.         *)
Execute(a) ==
  /\ attack[a].status = "queued"
  /\ counter' = 0
  /\ attack' = [b \in Attacks |->
       [attack[b] EXCEPT
          !.status = IF b # a THEN @ ELSE IF Formats(a) THEN "running" ELSE "failed",
          !.overlapped = @ \/ (b # a /\ Attacking(b))]]
  /\ line' = IF Formats(a) THEN line \o [n \in DOMAIN Generated(a) |-> <<a, n>>] ELSE line
  /\ UNCHANGED <<flying, came>>

(* _send_one() has passed the semaphore: it takes a number and sends. *)
SendOne ==
  /\ line # <<>> /\ Cardinality(flying) < Slots
  /\ line' = Tail(line)
  /\ counter' = counter + 1
  /\ flying' = flying \cup {Append(Head(line), counter + 1)}
  /\ UNCHANGED <<attack, came>>

(* The response of the target, or an error: that is a result as well. *)
Arrived(f) ==
  /\ flying' = flying \ {f}
  /\ came' = [came EXCEPT ![f[1]] = @ \cup {<<f[2], f[3]>>}]
  /\ UNCHANGED <<attack, line, counter>>

(* The runner reads one result, and writes how many it has. *)
ReadResult(a, result) ==
  /\ Attacking(a) /\ result \in came[a]
  /\ attack' = [attack EXCEPT ![a].results = @ \cup {result}]
  /\ came' = [came EXCEPT ![a] = @ \ {result}]
  /\ UNCHANGED <<line, flying, counter>>

(* as_completed() is through when it has awaited every task. *)
AllRead(a) == Cardinality(attack[a].results) = Len(Generated(a))

Complete(a) ==
  /\ Attacking(a) /\ AllRead(a)
  /\ attack' = [attack EXCEPT ![a].status = "completed"]
  /\ UNCHANGED <<line, flying, came, counter>>

(* Cancelled while it awaits: the results it has read go with it. *)
CancelAttack(a) ==
  /\ attack[a].status \in {"none", "queued", "running"}
  /\ attack' = [attack EXCEPT ![a].status = "cancelled", ![a].results = {}]
  /\ UNCHANGED <<line, flying, came, counter>>

IntruderNext ==
  \/ \E a \in Attacks : IntruderRun(a) \/ Execute(a) \/ Complete(a) \/ CancelAttack(a)
  \/ \E a \in Attacks : \E result \in came[a] : ReadResult(a, result)
  \/ SendOne
  \/ \E f \in flying : Arrived(f)

IntruderSpec == IntruderInit /\ [][IntruderNext]_intruderVars

-----------------------------------------------------------------------------
IntruderTypeOK ==
  /\ Cardinality(flying) <= Slots /\ counter \in Nat
  /\ \A a \in Attacks : attack[a].status \in {"none", "queued", "running", "completed", "failed", "cancelled"}

(* What each mode promises: one marker at a time takes each word, the others *)
(* keep their value; every combination of words.                            *)
Promised(a) ==
  IF attack[a].mode = "sniper"
    THEN {[Bases EXCEPT ![i] = w] : i \in DOMAIN Bases, w \in ToSet(Words)}
    ELSE [DOMAIN Bases -> ToSet(Words)]

(* An attack that completed has tried all that its mode promises and has the *)
(* result of each request exactly once, though other attacks share the       *)
(* semaphore with it and those that were cancelled still hold slots of it;   *)
(* a result is numbered once, unless another attack began in between and set *)
(* the counter back (engine.py:41).                                          *)
AttackIsComplete ==
  \A a \in Attacks :
    LET results == attack[a].results
    IN attack[a].status = "completed" =>
         /\ {Generated(a)[r[1]] : r \in results} = Promised(a)
         /\ \A r, q \in results : r # q =>
              r[1] # q[1] /\ (attack[a].overlapped \/ r[2] # q[2])
=============================================================================
