------------------------------ MODULE BoardSend ------------------------------
(* One message to another board, Comm/IPComm.c: IPComm_SendData cuts it into *)
(* packets, opens a connection for each, and tries a packet again until the  *)
(* board answers IPCOMM_SUCCESS_CMD or the tries are used up.  What the      *)
(* network and the board make of one try is an element of Tries; the result  *)
(* of a whole message is a fold over the tries it met.                       *)
EXTENDS Naturals, Sequences, SequencesExt

\* "refused": no connection.  "lost": the packet does not arrive, or nothing of an answer does before
\* the board has executed it.  "deaf": executed, the answer does not come back whole.
Tries == {"refused", "lost", "deaf", "answered", "rejected"}
Executed == {"deaf", "answered"}

\* IPComm_ParseData: an answer that is too short to be one leaves *pstIPComm as it was.
ParseData(cmd, try) ==
    CASE try = "answered" -> "SUCCESS"
      [] try = "rejected" -> "ERROR"
      [] OTHER -> cmd

MAX_TRY == 3

\* Sending packet tran of n: cnt is one counter for all the packets, and a fourth try that is answered
\* is still a time-out.
Try(n, st, try) ==
    LET cmd == ParseData(st.cmd, try)
        got == IF try \in Executed THEN st.got \cup {st.tran} ELSE st.got
    IN  IF st.code # "sending" THEN st
        ELSE IF try = "refused" THEN [st EXCEPT !.code = "CONNECT_FAIL"]
        ELSE IF st.cnt >= MAX_TRY THEN [st EXCEPT !.cmd = cmd, !.got = got, !.code = "TIME_OUT"]
        ELSE IF cmd # "SUCCESS" THEN [st EXCEPT !.cmd = cmd, !.got = got, !.cnt = @ + 1]
        ELSE [st EXCEPT !.cmd = cmd, !.got = got, !.tran = @ + 1,
                        !.code = IF st.tran + 1 = n THEN "SUCCESS" ELSE "sending"]

\* stIPComm is not initialised: it starts with whatever command the stack holds.
SendData(n, cmd, tries) ==
    FoldLeft(LAMBDA st, try : Try(n, st, try),
             [tran |-> 0, cnt |-> 0, cmd |-> cmd, got |-> {}, code |-> "sending"], tries)

\* IPComm_SendCmd is the same loop for a message without data.
SendCmd(cmd, tries) == SendData(1, cmd, tries)

\* What the caller learns (ok) and what the board did (done) of a message in n packets, for every
\* course of the tries.
Results(n) ==
    {[ok |-> r.code = "SUCCESS", done |-> r.got = 0..(n - 1)] :
        r \in {x \in {SendData(n, cmd, tries) : cmd \in {"SUCCESS", "ERROR"},
                                               tries \in [1..(n + MAX_TRY) -> Tries]} :
                 x.code # "sending"}}

\* A change of destinations for one slot: its data, and IPCOMM_SEND_DONE_FLAG when the data went well.
\* (The flag is a message of one packet: Results(1).)
SlotResults(n) ==
    {[ok |-> d.ok /\ f.ok, done |-> d.done /\ (d.ok => f.done)] : d \in Results(n), f \in Results(1)}
=============================================================================
