---------------------------- MODULE RelayedCalls ----------------------------
(* What the relay promises a caller of its tools (AG-12, design-mcp-relay.md   *)
(* 5): every call ends, once, with the page's answer, a word of the relay or   *)
(* its own cancellation, and the page's answer comes only after the page has   *)
(* carried the call out. What the page carried out stays so, whatever the      *)
(* caller is told. Links, identifiers, timers and files do not appear here:    *)
(* AgentRelay has them, and implements this module.                           *)
CONSTANT Calls

VARIABLES
    status,     \* what the caller knows of each call
    carried     \* the calls the page has carried out

Init == /\ status = [c \in Calls |-> "unasked"]
        /\ carried = {}

Ask(c) == /\ status[c] = "unasked"
          /\ status' = [status EXCEPT ![c] = "open"]
          /\ UNCHANGED carried

(* A call the relay answers on the spot. *)
AskAndTell(c) == /\ status[c] = "unasked"
                 /\ status' = [status EXCEPT ![c] = "told"]
                 /\ UNCHANGED carried

(* The page acts in its own time: also after the caller was told something. *)
Carry(c) == /\ status[c] # "unasked"
            /\ c \notin carried
            /\ carried' = carried \cup {c}
            /\ UNCHANGED status

AnswerByPage(c) == /\ status[c] = "open"
                   /\ c \in carried
                   /\ status' = [status EXCEPT ![c] = "answered"]
                   /\ UNCHANGED carried

TellByRelay(c) == /\ status[c] = "open"
                  /\ status' = [status EXCEPT ![c] = "told"]
                  /\ UNCHANGED carried

Cancel(c) == /\ status[c] = "open"
             /\ status' = [status EXCEPT ![c] = "canceled"]
             /\ UNCHANGED carried

End(c) == AnswerByPage(c) \/ TellByRelay(c) \/ Cancel(c)

Next == \E c \in Calls : Ask(c) \/ AskAndTell(c) \/ Carry(c) \/ End(c)

(* What no step may break; Spec adds that every open call ends. *)
Safety == Init /\ [][Next]_<<status, carried>>

Spec == /\ Safety
        /\ \A c \in Calls : WF_<<status, carried>>(End(c))
=============================================================================
