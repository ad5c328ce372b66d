---------------------------- MODULE SpineInterface ----------------------------
(***************************************************************************)
(* The agent's side of the shared memory: the operations of SpineInterface *)
(* (upkie/spine/spine_interface.py) and the methods of UpkieBaseEnv that   *)
(* call them (upkie/envs/upkie_base_env.py).  An agent is one process; its *)
(* steps are its accesses to the shared memory.  A Python exception ends   *)
(* the method; what the caller does next is another method, or nothing.    *)
(***************************************************************************)
EXTENDS AgentInterface

CONSTANTS
    Methods,       \* what the caller calls
    AgentFaults    \* what may go wrong in the agent process

(***************************************************************************)
(* "reset", "step" and "close" are methods of UpkieBaseEnv; "start" is a   *)
(* direct call of SpineInterface.start, as scripts without environment do. *)
(*                                                                         *)
(* "timeout":  100 ms elapse before the spine answers                      *)
(* "oversize": the packed dictionary is larger than the mapping            *)
(* "restart":  the agent dies at any point of a call, another one connects *)
(***************************************************************************)
ASSUME AgentAssumption ==
    /\ Methods \subseteq {"reset", "step", "close", "start"}
    /\ AgentFaults \subseteq {"timeout", "oversize", "restart"}

VARIABLES
    agent_pc,      \* next step of the agent
    method,        \* the method it is in
    op,            \* the operation of SpineInterface it is in
    sent,          \* whether this operation has raised its request
    calls,         \* dictionaries written so far
    agent_size,    \* size word as read by _read_dict
    returned       \* what the last operation gave its caller

agent_vars == <<agent_pc, method, op, sent, calls, agent_size, returned>>

AgentPc == {"ready", "wait", "check", "clear_error", "assert_write",
            "write_size", "write_data", "write_request", "assert_read",
            "read_size", "read_data"}

Op == {"set_action", "start", "stop"}

Nothing == [call |-> 0, message |-> Empty]

AgentTypeOK ==
    /\ agent_pc \in AgentPc
    /\ method \in {"reset", "step", "close", "start"}
    /\ op \in Op
    /\ sent \in BOOLEAN
    /\ calls \in Call
    /\ agent_size \in Message
    /\ returned \in [call: Call, message: Message]

AgentInit ==
    /\ agent_pc = "ready"
    /\ method = "close"
    /\ op = "stop"
    /\ sent = FALSE
    /\ calls = 0
    /\ agent_size = Empty
    /\ returned = Nothing

-----------------------------------------------------------------------------
stop_waiting == {"kNone", "kError"}

first_op(m) ==
    IF m = "step" THEN "set_action" ELSE IF m = "start" THEN "start" ELSE "stop"

request_of(o) ==
    IF o = "set_action" THEN "kAction"
    ELSE IF o = "start" THEN "kStart" ELSE "kStop"

\* The dictionary of the current operation, once it has its number.
dictionary == [kind |-> IF op = "set_action" THEN "action" ELSE "config",
               call |-> calls]

goto_agent(pc) ==
    /\ agent_pc' = pc
    /\ UNCHANGED <<method, op, sent, calls, agent_size, returned>>

raise == goto_agent("ready")

begin_op(o) ==
    /\ op' = o
    /\ sent' = FALSE
    /\ agent_pc' = "wait"

-----------------------------------------------------------------------------
\* The caller calls a method; the bound is on the dictionaries it may write.
CallMethod ==
    /\ agent_pc = "ready"
    /\ \E m \in Methods :
          /\ m # "close" => calls < MaxCalls
          /\ method' = m
          /\ begin_op(first_op(m))
    /\ returned' = Nothing
    /\ UNCHANGED <<interface_vars, calls, agent_size>>

\* Mistaken: the agent does not wait.
WaitForSpine_not_waiting ==
    /\ agent_pc = "wait"
    /\ goto_agent("check")
    /\ UNCHANGED interface_vars

\* _wait_for_spine: the loop, its deadline, and the second read after it.
WaitForSpine ==
    /\ agent_pc = "wait"
    /\ mmap_request \in stop_waiting
    /\ goto_agent("check")
    /\ UNCHANGED interface_vars

WaitTimeout ==
    /\ "timeout" \in AgentFaults
    /\ agent_pc = "wait"
    /\ mmap_request \notin stop_waiting
    /\ raise
    /\ UNCHANGED interface_vars

\* Mistaken: the agent raises kAction without writing its action.
CheckError_not_writing ==
    /\ agent_pc = "check"
    /\ goto_agent(IF mmap_request = "kError" THEN "clear_error"
                  ELSE IF sent THEN "assert_read"
                  ELSE IF op # "start" THEN "write_request"
                  ELSE "assert_write")
    /\ UNCHANGED interface_vars

CheckError ==
    /\ agent_pc = "check"
    /\ goto_agent(IF mmap_request = "kError" THEN "clear_error"
                  ELSE IF sent THEN "assert_read"
                  ELSE IF op = "stop" THEN "write_request"
                  ELSE "assert_write")
    /\ UNCHANGED interface_vars

ClearError ==
    /\ agent_pc = "clear_error"
    /\ set_request("kNone")
    /\ raise
    /\ UNCHANGED <<mmap_size, mmap_data>>

\* _write_dict: its assertion, the size word, the buffer.  Writing past the
\* end of the mapping raises an exception after the size has been written.
AssertBeforeWrite ==
    /\ agent_pc = "assert_write"
    /\ IF mmap_request = "kNone"
       THEN /\ calls' = calls + 1
            /\ agent_pc' = "write_size"
            /\ UNCHANGED <<method, op, sent, agent_size, returned>>
       ELSE raise
    /\ UNCHANGED interface_vars

WriteDictSize ==
    /\ agent_pc = "write_size"
    /\ write_size(dictionary)
    /\ goto_agent("write_data")
    /\ UNCHANGED mmap_request

WriteDict ==
    /\ agent_pc = "write_data"
    /\ write_data(dictionary)
    /\ goto_agent("write_request")
    /\ UNCHANGED mmap_request

WriteOversizedDict ==
    /\ "oversize" \in AgentFaults
    /\ agent_pc = "write_data"
    /\ raise
    /\ UNCHANGED interface_vars

\* _write_request: stop() returns at once, and reset() goes on with start();
\* the other operations wait for the spine.
WriteRequest ==
    /\ agent_pc = "write_request"
    /\ set_request(request_of(op))
    /\ \/ /\ op = "stop" /\ method = "reset"
          /\ begin_op("start")
       \/ /\ op = "stop" /\ method # "reset"
          /\ agent_pc' = "ready"
          /\ UNCHANGED <<op, sent>>
       \/ /\ op # "stop"
          /\ agent_pc' = "wait"
          /\ sent' = TRUE
          /\ UNCHANGED op
    /\ UNCHANGED <<mmap_size, mmap_data, method, calls, agent_size, returned>>

\* _read_dict: its assertion, the size word, the buffer.  Bytes that are not
\* one dictionary fail the assertion after unpacking.
AssertBeforeRead ==
    /\ agent_pc = "assert_read"
    /\ IF mmap_request = "kNone" THEN goto_agent("read_size") ELSE raise
    /\ UNCHANGED interface_vars

ReadDictSize ==
    /\ agent_pc = "read_size"
    /\ agent_size' = mmap_size
    /\ agent_pc' = "read_data"
    /\ UNCHANGED <<interface_vars, method, op, sent, calls, returned>>

ReadDict ==
    /\ agent_pc = "read_data"
    /\ agent_pc' = "ready"
    /\ returned' =
          IF parsed(agent_size) \in {Empty, Garbage}
          THEN returned
          ELSE [call |-> calls, message |-> parsed(agent_size)]
    /\ UNCHANGED <<interface_vars, method, op, sent, calls, agent_size>>

Restart ==
    /\ "restart" \in AgentFaults
    /\ agent_pc # "ready"
    /\ raise
    /\ UNCHANGED interface_vars

\* A step of a call under way, as opposed to the start of another one.
AgentStep ==
    \/ WaitForSpine
    \/ WaitTimeout
    \/ CheckError
    \/ ClearError
    \/ AssertBeforeWrite
    \/ WriteDictSize
    \/ WriteDict
    \/ WriteOversizedDict
    \/ WriteRequest
    \/ AssertBeforeRead
    \/ ReadDictSize
    \/ ReadDict

=============================================================================
