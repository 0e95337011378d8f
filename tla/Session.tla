------------------------------ MODULE Session ------------------------------
(***************************************************************************)
(* What the RTSP client promises the device object that listens to it      *)
(* (the listeners doHandshake installs in deviceAirtunes.ts): the stream   *)
(* parameters come before the order to stream, a passcode prompt may come  *)
(* at any time and is withdrawn only by an answer or the end, and after    *)
(* the end, which comes once, nothing comes at all.                        *)
(***************************************************************************)
VARIABLES
    phase,   \* what the device has been told
    prompt   \* a passcode is owed by the user

Init == phase = "opening" /\ prompt = FALSE

Configure ==
    /\ phase = "opening"
    /\ phase' = "configured"
    /\ prompt' = prompt

Stream ==
    /\ phase = "configured"
    /\ phase' = "streaming"
    /\ prompt' = prompt

Ask ==
    /\ phase # "ended"
    /\ ~prompt
    /\ prompt' = TRUE
    /\ phase' = phase

Answer ==
    /\ prompt
    /\ prompt' = FALSE
    /\ phase' = phase

End ==
    /\ phase # "ended"
    /\ phase' = "ended"
    /\ prompt' = FALSE

Next == Configure \/ Stream \/ Ask \/ Answer \/ End

Spec == Init /\ [][Next]_<<phase, prompt>>
=============================================================================
