---------------------------- MODULE StickyContext ----------------------------
(***************************************************************************)
(* What the session context of the MCP server promises (ADR-0029, the tool *)
(* set_active_version): an API key pins a version once, and the calls that *)
(* name none are answered for it, until the pin has not been touched for   *)
(* Lifetime. Where it may go wrong is said here too: while the database is *)
(* unhealthy a call may be answered without the context, and whatever a    *)
(* call was answered with may be answered again for less than Grace ticks, *)
(* unless the key has pinned something meanwhile.                          *)
(***************************************************************************)
EXTENDS Integers

CONSTANTS Keys, NoKey, Versions, NoVersion,
          Lifetime,  \* ticks a pin lives after it was last written
          Grace      \* ticks an answer may be repeated

VARIABLES
  pin,      \* the version each key pinned last
  idle,     \* ticks since the pin was written, at most Lifetime
  memory,   \* for each key and context, the ticks it may still be repeated
  healthy,  \* does every access to the database succeed?
  served    \* the answer the last step gave: a key and a context

vars == <<pin, idle, memory, healthy, served>>

Contexts == Versions \cup {NoVersion}
Silence == [key |-> NoKey, context |-> NoVersion]

Current(k) == IF idle[k] < Lifetime THEN pin[k] ELSE NoVersion

\* Nothing is remembered longer than the bound allows.
Fades(k, bound) ==
  \A c \in Contexts : memory'[k][c] \in 0 .. bound[c]

Others(k) == \A j \in Keys \ {k} : memory'[j] = memory[j]

Init ==
  /\ pin = [k \in Keys |-> NoVersion]
  /\ idle = [k \in Keys |-> Lifetime]
  /\ memory = [k \in Keys |-> [c \in Contexts |-> 0]]
  /\ healthy \in BOOLEAN
  /\ served = Silence

\* The key is told that its pin is v: from here on only v is answered.
Pin(k, v) ==
  /\ pin' = [pin EXCEPT ![k] = v]
  /\ idle' = [idle EXCEPT ![k] = 0]
  /\ memory' = [memory EXCEPT ![k] = [c \in Contexts |-> 0]]
  /\ healthy' = healthy
  /\ served' = Silence

\* The key pins a profile: the version it pinned lives on, or again.
Touch(k) == Pin(k, pin[k])

\* The key is told of an error although v has been written.
PinUnconfirmed(k, v) ==
  /\ pin' = [pin EXCEPT ![k] = v]
  /\ idle' = [idle EXCEPT ![k] = 0]
  /\ memory' = memory
  /\ healthy' = FALSE
  /\ served' = Silence

\* A call that names no version.
Answer(k) ==
  /\ \E c \in Contexts :
       /\ c = Current(k) \/ memory[k][c] > 0
       /\ served' = [key |-> k, context |-> c]
  /\ Fades(k, [memory[k] EXCEPT ![Current(k)] = Grace])
  /\ Others(k)
  /\ UNCHANGED <<pin, idle, healthy>>

\* One that cannot read the context.
AnswerBlind(k) ==
  /\ ~ healthy
  /\ served' = [key |-> k, context |-> NoVersion]
  /\ Fades(k, [memory[k] EXCEPT ![NoVersion] = Grace])
  /\ Others(k)
  /\ healthy' \in BOOLEAN
  /\ UNCHANGED <<pin, idle>>

Tick ==
  /\ idle' = [k \in Keys |-> IF idle[k] < Lifetime THEN idle[k] + 1 ELSE Lifetime]
  /\ memory' = [k \in Keys |-> [c \in Contexts |->
                  IF memory[k][c] > 0 THEN memory[k][c] - 1 ELSE 0]]
  /\ served' = Silence
  /\ UNCHANGED <<pin, healthy>>

\* The database comes and goes, the server may restart and remember nothing.
Elsewhere ==
  /\ healthy' \in BOOLEAN
  /\ \A k \in Keys : Fades(k, memory[k])
  /\ served' = Silence
  /\ UNCHANGED <<pin, idle>>

Next ==
  \/ \E k \in Keys : \/ \E v \in Versions : Pin(k, v) \/ PinUnconfirmed(k, v)
                     \/ Touch(k)
                     \/ PinUnconfirmed(k, pin[k])
                     \/ Answer(k)
                     \/ AnswerBlind(k)
  \/ Tick
  \/ Elsewhere

Spec == Init /\ [][Next]_vars

==============================================================================
