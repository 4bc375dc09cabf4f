--------------------------- MODULE UpdateHistory ---------------------------
(***************************************************************************)
(* UpdatePush with history variables, to say where each change of an input *)
(* has gone. They record and never constrain: HistorySpec has exactly the  *)
(* behaviours of UpdatePush.                                               *)
(***************************************************************************)
EXTENDS UpdatePush

VARIABLES
    told,     \* what the latest reply to this client says of each input
    unseen,   \* the inputs that changed since a reply last fetched them
    lost      \* the inputs whose value was lost on its way to the client

history == <<told, unseen, lost>>

HistoryInit ==
    /\ Init
    /\ told = [id \in Inputs |-> NoValue]
    /\ unseen = {}
    /\ lost = Inputs

\* A new client has been told nothing.
RecordAccept ==
    /\ told' = [id \in Inputs |-> NoValue]
    /\ lost' = Inputs
    /\ UNCHANGED unseen

\* The drivers' initialisation and every change are news.
RecordChange ==
    /\ unseen' = unseen \cup {id \in Inputs : value'[id] # value[id]}
                        \cup (IF scan = GpioInit /\ scan' # scan THEN Io ELSE {})
    /\ UNCHANGED <<told, lost>>

RecordFetch ==
    /\ unseen' = unseen \ {cursor}
    /\ UNCHANGED <<told, lost>>

\* The flag of the input is cleared: what it was worth is lost when it is not
\* what the reply says.
RecordClear ==
    /\ told' = [told EXCEPT ![cursor] = fetched]
    /\ lost' = IF value[cursor] = fetched THEN lost \ {cursor}
                                          ELSE lost \cup {cursor}
    /\ UNCHANGED unseen

RecordDroppedReply ==
    /\ lost' = lost \cup DOMAIN reply
    /\ UNCHANGED <<told, unseen>>

HistoryNext ==
    \/ (Mainloop \/ gpio_write) /\ RecordChange
    \/ accept /\ RecordAccept
    \/ get_value_call /\ RecordFetch
    \/ set_is_updated_call /\ RecordClear
    \/ (build_payload_overflows \/ write_to_closed_client) /\ RecordDroppedReply
    \/ /\ \/ api_server_fails \/ Timeout \/ Request
          \/ WakeForSecondClient \/ ClientIsDisconnected
          \/ gpio_write_fails \/ exec_set_out_done
          \/ is_updated_call \/ RoomIsLeft \/ write_to_client
          \/ Environment
       /\ UNCHANGED history

HistorySpec == HistoryInit /\ [][HistoryNext]_<<vars, history>>

-----------------------------------------------------------------------------
(* Properties *)

HistoryTypeOK ==
    /\ TypeOK
    /\ told \in [Inputs -> Values \cup {NoValue}]
    /\ unseen \subseteq Inputs
    /\ lost \subseteq Inputs

\* "But only" (README): a flag is up only on an input that changed after a
\* reply last fetched it, so a push carries news; the one exception is the
\* instant between the fetch and the clearing of the flag.
OnlyNewsIsFlagged ==
    \A id \in Inputs :
        is_updated[id] => id \in unseen \/ (pc = "clear" /\ cursor = id)

\* Whatever the interleaving of the two threads, the value of an input is what
\* the replies to the client last said, or its flag is up, or the API thread
\* holds it between two of its calls to the driver, or it was lost in one of
\* three ways: it changed between the fetch and the clearing of the flag, it
\* was dropped with a reply that overflowed, or it was written to a client that
\* had closed. A change cannot go missing in any other way.
ServerAccounts ==
    \A id \in Inputs :
        \/ told[id] = value[id]
        \/ is_updated[id]
        \/ id \in lost
        \/ pc = "clear" /\ cursor = id

\* The same seen from the client: once nothing is on its way to it, it knows
\* the value of every input that is neither flagged nor lost.
ClientAccounts ==
    (link = "up" /\ wire = <<>> /\ pc \in {"select", "read"}) =>
        \A id \in Inputs :
            view[id] = value[id] \/ is_updated[id] \/ id \in lost
=============================================================================
