------------------------------ MODULE AsyncCall -----------------------------
(***************************************************************************)
(* What an AsyncClient promises the callback it is given: after the call   *)
(* has started, any number of messages if the response is a stream, and    *)
(* then one last invocation with the status, after which there is none.    *)
(***************************************************************************)
EXTENDS Integers

CONSTANTS Clients, Kind, MaxMessages

VARIABLES
  open,      \* clients whose call has started
  messages,  \* invocations of the callback with a message of the stream
  finals     \* invocations of the callback with the status of the call

CallInit ==
  /\ open = {}
  /\ messages = [c \in Clients |-> 0]
  /\ finals = [c \in Clients |-> 0]

Open(c) ==
  /\ c \notin open
  /\ open' = open \cup {c}
  /\ UNCHANGED <<messages, finals>>

Message(c) ==
  /\ c \in open
  /\ Kind[c] = "SERVER_STREAMING"
  /\ finals[c] = 0
  /\ messages[c] < MaxMessages
  /\ messages' = [messages EXCEPT ![c] = @ + 1]
  /\ UNCHANGED <<open, finals>>

Final(c) ==
  /\ c \in open
  /\ finals[c] = 0
  /\ finals' = [finals EXCEPT ![c] = 1]
  /\ UNCHANGED <<open, messages>>

CallNext == \E c \in Clients : Open(c) \/ Message(c) \/ Final(c)

CallSpec == CallInit /\ [][CallNext]_<<open, messages, finals>>
=============================================================================
