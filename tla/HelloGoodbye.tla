---------------------------- MODULE HelloGoodbye ----------------------------
(***************************************************************************)
(* HelloObject and GoodbyeObject, the SimObjects with which Part 2 of the  *)
(* book begins, in its three versions: one without events, one that fires  *)
(* an event a number of times, and one that then says goodbye through a    *)
(* GoodbyeObject, which copies its message into a buffer and ends the      *)
(* simulation.  Two HelloObjects may name one GoodbyeObject.               *)
(*                                                                         *)
(* The event queue is gem5's (external): events are served in the order of *)
(* their ticks, in any order within a tick, but the exit last; schedule()  *)
(* asserts that an event is not scheduled yet, and not in the past.        *)
(***************************************************************************)
EXTENDS Integers, FiniteSets, Sequences

CONSTANTS Latencies, Fires, Lengths, BufferSizes, Bandwidths,   \* values of the parameters
          MantissaBits   \* of a float: 24 in the program

ASSUME ParameterAssumption ==
    /\ Latencies \subseteq Nat /\ Fires \subseteq Int /\ BufferSizes \subseteq Nat /\ Bandwidths \subseteq Nat
    /\ Lengths \subseteq Nat \ {0} /\ MantissaBits \in Nat \ {0}

VARIABLES config,      \* the version and the parameters that the script sets
          status,      \* "new", "running", "aborted", or why simulate() returned
          now,         \* curTick()
          scheduled,   \* the tick at which each event is to happen
          exits,       \* the ticks of the exit events
          timesLeft,
          message,     \* the HelloObject that the message names
          buffer,      \* the bytes copied, each by its message and its place there
          spoken       \* when each HelloObject called sayGoodbye, for the properties

vars == <<config, status, now, scheduled, exits, timesLeft, message, buffer, spoken>>
---------------------------------------------------------------------------
(* The parameters of HelloObject, with the length of the message made of   *)
(* its name; of GoodbyeObject, the bandwidth in ticks per byte.            *)
Hellos == [latency : Latencies, fires : Fires, length : Lengths]
Configs ==
    [version : {"helloobject", "events"}, hellos : [{1} -> Hellos], bufferSize : {0}, bandwidth : {0}]
    \cup [version : {"parameters"}, hellos : [{1} -> Hellos] \cup [{1, 2} -> Hellos],
          bufferSize : BufferSizes, bandwidth : Bandwidths]

NoMessage == 0
Goodbye == 0   \* the event of the GoodbyeObject; that of a HelloObject is its number
Objects == DOMAIN config.hellos
Length(h) == config.hellos[h].length

Pow2[n \in Nat] == IF n = 0 THEN 1 ELSE 2 * Pow2[n - 1]

(* What is computed with a float is a float: from 2^MantissaBits on it is  *)
(* rounded to a multiple of a power of 2, to the even one of two that are  *)
(* as near.                                                                *)
Spacing(t) == Pow2[CHOOSE e \in 0 .. t : /\ t < Pow2[MantissaBits + e]
                                         /\ \A d \in 0 .. e - 1 : t >= Pow2[MantissaBits + d]]
Float(t) ==
    LET s == Spacing(t)
        q == t \div s
        up == 2 * (t % s) > s \/ (2 * (t % s) = s /\ q % 2 = 1)
    IN  (IF up THEN q + 1 ELSE q) * s

Init ==
    /\ config \in Configs
    /\ status = "new" /\ now = 0
    /\ scheduled = << >> /\ exits = {}
    /\ timesLeft = [h \in DOMAIN config.hellos |-> config.hellos[h].fires]
    /\ message = NoMessage /\ buffer = <<>>
    /\ spoken = << >>

(* m5.instantiate() and m5.simulate(): startup() of every object. *)
Startup ==
    /\ status = "new"
    /\ status' = "running"
    /\ scheduled' = IF config.version = "helloobject" THEN << >>
                    ELSE [h \in Objects |-> config.hellos[h].latency]
    /\ UNCHANGED <<config, now, exits, timesLeft, message, buffer, spoken>>

Without(f, x) == [y \in DOMAIN f \ {x} |-> f[y]]
With(f, x, v) == [y \in DOMAIN f \cup {x} |-> IF y = x THEN v ELSE f[y]]
---------------------------------------------------------------------------
(* fillBuffer with message h at tick t, when the events in pending are     *)
(* scheduled: copy the message as far as it goes, leaving the last byte of *)
(* the buffer, and schedule the next copy or the exit.                     *)
CopiedToTheEnd(h) == LET room == config.bufferSize - Len(buffer)   \* mutant
                     IN  IF Length(h) < room THEN Length(h) ELSE room
Copied(h) == LET room == config.bufferSize - 1 - Len(buffer)
             IN  IF room <= 0 THEN 0 ELSE IF Length(h) < room THEN Length(h) ELSE room

CopyTimeNone(t, n) == t   \* mutant
CopyTime(t, n) == Float(Float(t) + Float(config.bandwidth * Float(n)))

MoreToTheEnd(used) == used < config.bufferSize   \* mutant
More(used) == used < config.bufferSize - 1

FillBuffer(h, t, pending) ==
    LET n == Copied(h)
        when == CopyTime(t, n)
        more == More(Len(buffer) + n)
    IN  /\ message' = h
        /\ buffer' = buffer \o [k \in 1 .. n |-> <<h, k>>]
        /\ IF when < t \/ (more /\ Goodbye \in DOMAIN pending)
           THEN status' = "aborted" /\ scheduled' = pending /\ UNCHANGED exits
           ELSE IF more
           THEN scheduled' = With(pending, Goodbye, when) /\ UNCHANGED <<status, exits>>
           ELSE exits' = exits \cup {when} /\ scheduled' = pending /\ UNCHANGED status

(* HelloObject::processEvent *)
Done(h) == timesLeft[h] - 1 <= 0

ProcessHello(h) ==
    LET t == scheduled[h]
        rest == Without(scheduled, h)
    IN  /\ timesLeft' = [timesLeft EXCEPT ![h] = @ - 1]
        /\ IF ~Done(h)
           THEN /\ scheduled' = With(rest, h, t + config.hellos[h].latency)
                /\ UNCHANGED <<status, exits, message, buffer, spoken>>
           ELSE IF config.version = "parameters"
           THEN /\ FillBuffer(h, t, rest)     \* goodbye->sayGoodbye(myName)
                /\ spoken' = With(spoken, h, t)
           ELSE /\ scheduled' = rest
                /\ UNCHANGED <<status, exits, message, buffer, spoken>>

(* GoodbyeObject::processEvent *)
ProcessGoodbye ==
    /\ FillBuffer(message, scheduled[Goodbye], Without(scheduled, Goodbye))
    /\ UNCHANGED <<timesLeft, spoken>>

Ticks == {scheduled[e] : e \in DOMAIN scheduled}

Serve(e) ==
    /\ status = "running"
    /\ \A t \in Ticks \cup exits : scheduled[e] <= t
    /\ now' = scheduled[e]
    /\ IF e = Goodbye THEN ProcessGoodbye ELSE ProcessHello(e)
    /\ UNCHANGED config

ServeExit ==
    /\ status = "running"
    /\ \E t \in exits : /\ \A u \in exits : t <= u
                        /\ \A u \in Ticks : t < u
                        /\ now' = t
    /\ status' = "goodbye"
    /\ UNCHANGED <<config, scheduled, exits, timesLeft, message, buffer, spoken>>

(* Without an event left simulate() runs to its limit. *)
NothingToServe ==
    /\ status = "running"
    /\ scheduled = << >> /\ exits = {}
    /\ status' = "limit reached"
    /\ UNCHANGED <<config, now, scheduled, exits, timesLeft, message, buffer, spoken>>

Next == \/ Startup
        \/ \E e \in DOMAIN scheduled : Serve(e)
        \/ ServeExit \/ NothingToServe

Spec == Init /\ [][Next]_vars
FairSpec == Spec /\ WF_vars(Next)
---------------------------------------------------------------------------
(* Properties. *)
Full == IF config.bufferSize = 0 THEN 0 ELSE config.bufferSize - 1

(* Types; the last byte of the buffer is left for the terminator, and what *)
(* is before it is whole messages, but for the last.                       *)
TypeOK ==
    /\ config \in Configs
    /\ status \in {"new", "running", "aborted", "goodbye", "limit reached"}
    /\ now \in Nat /\ exits \subseteq Nat
    /\ DOMAIN scheduled \subseteq Objects \cup {Goodbye}
    /\ message \in Objects \cup {NoMessage}
    /\ Len(buffer) <= Full
    /\ \A k \in 1 .. Len(buffer) :
          /\ buffer[k][1] \in Objects
          /\ IF k = 1 \/ buffer[k - 1][2] = Length(buffer[k - 1][1])
             THEN buffer[k][2] = 1
             ELSE buffer[k] = <<buffer[k - 1][1], buffer[k - 1][2] + 1>>

(* One HelloObject says goodbye after the number of firings it was given,  *)
(* at least one, and the simulation ends when the buffer is full and the   *)
(* time of every byte has passed.  Only two things can spoil that: another *)
(* HelloObject that speaks before the end, and a tick that a float does    *)
(* not hold, from which an event may even be scheduled in the past.        *)
GoodbyeInTime ==
    LET firings(h) == IF config.hellos[h].fires < 1 THEN 1 ELSE config.hellos[h].fires
    IN  /\ \A h \in DOMAIN spoken : spoken[h] = config.hellos[h].latency * firings(h)
        /\ Cardinality(DOMAIN spoken) = 1 /\ now < Pow2[MantissaBits] =>
              \A h \in DOMAIN spoken :
                 /\ status # "aborted"
                 /\ status = "goodbye" => Len(buffer) = Full /\ now = spoken[h] + config.bandwidth * Full

(* The simulation ends, by the goodbye where there is one. *)
SimulationEnds == <>(status \in {"goodbye", "aborted"} \/ (status = "limit reached" /\ config.version # "parameters"))
===========================================================================
