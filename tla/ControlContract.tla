-------------------------- MODULE ControlContract --------------------------
(***************************************************************************)
(* What CLA may rely on: control, with all that is behind it, serves one   *)
(* request at a time, answers it once and together with the state of the   *)
(* modem that results, and announces no state after out of service.        *)
(***************************************************************************)
EXTENDS Ipc

VARIABLES
    serving,    \* the request being served, or "NONE"
    announced,  \* the state of the modem last announced to CLA
    requests,   \* requests of CLA that control has not read
    claQ,       \* messages to CLA
    abort       \* # <<>>: an ASSERT has ended the process

vars == <<serving, announced, requests, claQ, abort>>

Kind(e) == CASE e = "EV_CLI_START" -> "START" [] e = "EV_CLI_STOP" -> "STOP"
             [] OTHER -> "RESET"

CliEvents == {"EV_CLI_START", "EV_CLI_STOP", "EV_CLI_RESET", "EV_CLI_RESET_DBG",
              "EV_CLI_UPDATE", "EV_CLI_NVM_BACKUP"}
OOS == {"UNRESP", "PLATFORM_REBOOT"}

Init == /\ serving = "NONE" /\ announced = "UNKNOWN" /\ requests = <<>>
        /\ claQ = <<>> /\ abort = <<>>

(***************************************************************************)
(* The end of a service of s (or of none) with a state of the modem: the   *)
(* result precedes the state, except that a failure follows it.            *)
(***************************************************************************)
Outcome(s, state) ==
    CASE s = "NONE"                      -> <<state>>
      [] s # "NONE" /\ state \in OOS     -> <<state, "FAILURE">>
      [] OTHER                           -> <<"SUCCESS", state>>

\* States that may end a service of s.
Ends(s) == OOS \cup (CASE s = "NONE" -> {"READY", "OFF"} [] s = "STOP" -> {"OFF"}
                       [] OTHER -> {"READY"})

\* Messages to CLA about debug information come in ones and twos.
Reports == {<<>>, <<"DBG_INFO">>, <<"DBG_INFO", "DBG_INFO">>}

\* Control goes on serving s, perhaps telling that the modem is busy.
Goes(s, r) ==
    /\ serving' = s
    /\ \/ claQ' = claQ \o r /\ UNCHANGED announced
       \/ /\ announced \notin {"UNKNOWN", "UNRESP"}
          /\ claQ' = claQ \o r \o <<"BUSY">> /\ announced' = "BUSY"

\* Control ends the service of s.
EndsWith(s, r) ==
    /\ serving' = "NONE"
    /\ \/ \E state \in Ends(s) :
            /\ announced # "UNRESP"
            /\ announced' = IF state \in OOS THEN "UNRESP" ELSE state
            /\ claQ' = claQ \o r \o Outcome(s, state)
       \/ /\ s \in {"START", "RESET"} /\ announced = "UNRESP"
          /\ claQ' = claQ \o <<"FAILURE">> /\ UNCHANGED announced

Serve(s) == /\ \E r \in Reports : Goes(s, r) \/ EndsWith(s, r)
            /\ UNCHANGED abort

\* A step for the request being served, if any, or that reads a request.
Continue == abort = <<>> /\ Serve(serving) /\ UNCHANGED requests
Take == /\ abort = <<>> /\ serving = "NONE" /\ requests # <<>>
        /\ Serve(Kind(Head(requests))) /\ requests' = Tail(requests)

\* CLA reads a message, makes a request, or both.
ClaSteps(es) == /\ abort = <<>>
                /\ claQ' = claQ \/ (claQ # <<>> /\ claQ' = Tail(claQ))
                /\ requests' = requests \/ \E e \in es : requests' = Append(requests, e)
                /\ UNCHANGED <<serving, announced, abort>>

\* An ASSERT fails, and nothing more is promised of the process; it is started
\* again.
Fails == abort = <<>> /\ abort' # <<>>
Restarts == Init'

Spec == Init /\ [][Continue \/ Take \/ ClaSteps(CliEvents) \/ Fails \/ Restarts]_vars
=============================================================================
