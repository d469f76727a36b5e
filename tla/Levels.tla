------------------------------- MODULE Levels -------------------------------
(***************************************************************************)
(* Reading the meters: Client::read_floats_multi (minidsp/src/client.rs),  *)
(* which groups addresses into ReadFloats commands, and                    *)
(* MiniDSP::get_input_output_levels (minidsp/src/lib.rs), which splits     *)
(* what comes back into inputs and outputs.  A level is represented by the *)
(* address of its meter.  Control takes these steps as part of a job.      *)
(* A definition named Bad... is the faulty twin of the one that follows,   *)
(* used by the mutation checks only.                                       *)
(***************************************************************************)
EXTENDS Naturals, Sequences, FiniteSetsExt, SequencesExt

CONSTANTS
    READ_FLOATS_MAX     \* floats that fit in one answer: 14

(* The meter of a channel is an option: a set of at most one address. *)
Meters(channels) == UNION {channels[i].meter : i \in DOMAIN channels}

VARIABLES
    spec,       \* the device's table
    addrs,      \* addresses not yet read, sorted
    levels,     \* the levels read
    commands,   \* the ReadFloats commands issued
    answer      \* <<input levels, output levels>>, <<>> until known

MetersOf(channels) ==
    FlattenSeq([i \in DOMAIN channels |-> SetToSeq(channels[i].meter)])
Wanted == Meters(spec.inputs) \cup Meters(spec.outputs)

(* A meter appears once in the generated tables, so a set will do. *)
Ascending(S) ==
    [i \in 1 .. Cardinality(S) |->
        CHOOSE a \in S : Cardinality({b \in S : b < a}) = i - 1]

(* A chunk ends before the first address that one command does not reach   *)
(* from the chunk's first.                                                 *)
BadReached(a) == a - addrs[1] < READ_FLOATS_MAX - 1
Reached(a) == a - addrs[1] < READ_FLOATS_MAX
Beyond == SelectInSeq(addrs, LAMBDA a : ~Reached(a))
Chunk == IF Beyond = 0 THEN addrs ELSE SubSeq(addrs, 1, Beyond - 1)

(* The address that does not fit is looked at and left for the next chunk. *)
BadRemaining == SubSeq(addrs, Len(Chunk) + 2, Len(addrs))
Remaining == SubSeq(addrs, Len(Chunk) + 1, Len(addrs))

ReadChunk ==
    /\ addrs # <<>>
    /\ commands' = Append(commands, [addr |-> Chunk[1],
                                     len |-> Last(Chunk) - Chunk[1] + 1])
    /\ levels' = levels \o Chunk
    /\ addrs' = Remaining
    /\ UNCHANGED <<spec, answer>>

(* The outputs' levels are those behind as many levels as there are input  *)
(* meters; the inputs' are the first ones, as many as there are inputs.    *)
InputLevels == SubSeq(levels, 1, Min({Len(spec.inputs), Len(levels)}))
OutputLevels ==
    SubSeq(levels, Len(MetersOf(spec.inputs)) + 1, Len(levels))

Split ==
    /\ addrs = <<>> /\ answer = <<>>
    /\ answer' = <<InputLevels, OutputLevels>>
    /\ UNCHANGED <<spec, addrs, levels, commands>>

-----------------------------------------------------------------------------
(* Properties *)

(* "Gets the current input and output level" (lib.rs): every channel that  *)
(* has a meter gets the level of its own, inputs and outputs in order.     *)
EachItsOwn ==
    answer # <<>> =>
        answer = <<MetersOf(spec.inputs), MetersOf(spec.outputs)>>

(* The reference: the smallest number of commands that reach every meter.  *)
Covers(S) ==
    \A a \in Wanted : \E f \in S : a \in f .. f + READ_FLOATS_MAX - 1
Suffices(n) == \E S \in kSubset(n, Wanted) : Covers(S)
Least == CHOOSE n \in 0 .. Cardinality(Wanted) :
            Suffices(n) /\ \A k \in 0 .. n - 1 : ~Suffices(k)

(* "using the least amount of commands possible" (client.rs). *)
LeastCommands == answer # <<>> => Len(commands) = Least
=============================================================================
