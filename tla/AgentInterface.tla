--------------------------- MODULE AgentInterface ---------------------------
(***************************************************************************)
(* The shared-memory object through which one spine and one agent talk     *)
(* (upkie/cpp/spine/AgentInterface.h on the spine's side, the mmap of      *)
(* upkie/spine/spine_interface.py on the agent's): a request word, a size  *)
(* word and a buffer holding one serialized dictionary.  Nothing locks it: *)
(* each operator below is one access to one field, and the modules that    *)
(* extend this one make every access a step of its own.                    *)
(*                                                                         *)
(* A dictionary is abstracted to a message: what it is (a configuration,   *)
(* an action, an observation) and the agent call it belongs to.  The size  *)
(* word is abstracted to the message it was computed from, so that a size  *)
(* and a buffer from two messages do not parse.                            *)
(***************************************************************************)
EXTENDS Naturals

CONSTANT MaxCalls    \* bound: dictionaries the agents write in one behaviour

ASSUME MaxCallsAssumption == MaxCalls \in Nat

VARIABLES mmap_request, mmap_size, mmap_data

interface_vars == <<mmap_request, mmap_size, mmap_data>>

Request == {"kNone", "kAction", "kStart", "kStop", "kError"}

Call == 0..MaxCalls

Message == [kind: {"empty", "config", "action", "observation", "garbage"},
            call: Call]

\* The object is zero-filled when it is created; a torn read parses to nothing.
Empty == [kind |-> "empty", call |-> 0]

Garbage == [kind |-> "garbage", call |-> 0]

InterfaceTypeOK ==
    /\ mmap_request \in Request
    /\ mmap_size \in Message
    /\ mmap_data \in Message

(***************************************************************************)
(* The constructor allocates a zero-filled object: request kNone, size 0.  *)
(***************************************************************************)
InterfaceInit ==
    /\ mmap_request = "kNone"
    /\ mmap_size = Empty
    /\ mmap_data = Empty

set_request(request) == mmap_request' = request

\* The two accesses of AgentInterface::write, in the order of the code.
write_size(message) ==
    /\ mmap_size' = message
    /\ UNCHANGED mmap_data

write_data(message) ==
    /\ mmap_data' = message
    /\ UNCHANGED mmap_size

\* What a reader deserializes from `size` bytes of the buffer.
parsed(size) == IF size = mmap_data THEN mmap_data ELSE Garbage

=============================================================================
