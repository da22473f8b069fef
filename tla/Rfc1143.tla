-------------------------------- MODULE Rfc1143 --------------------------------
(***************************************************************************)
(* The tables of _negotiate and telnet_negotiate in libtelnet.c, after     *)
(* RFC 1143.  The code has each of them twice, for `us' and for `him', with *)
(* other command bytes: here a command is only its sense (TRUE for WILL    *)
(* and DO).                                                                *)
(***************************************************************************)
QStates == {"NO", "YES", "WANTNO", "WANTNO_OP", "WANTYES", "WANTYES_OP"}

(* An option counts as on until its end is agreed. *)
On == {"YES", "WANTNO", "WANTNO_OP"}

(* What a half does: its next state, the sense of the command it sends,    *)
(* the application's view after the event, and whether it is an error.     *)
(* "keep" and "none" stand for what a row leaves alone.                    *)
Row(next, send, view, err) == [next |-> next, send |-> send, view |-> view, err |-> err]
Nothing(state) == Row(state, "none", "keep", FALSE)

(* Wrong variant: a second request while WANTNO is forgotten. *)
OnAskYesForgets(state) ==
    CASE state = "NO" -> Row("WANTYES", "yes", "keep", FALSE)
      [] state = "WANTYES_OP" -> Row("WANTYES", "none", "keep", FALSE)
      [] state = "WANTNO" -> Row("WANTYES", "yes", "keep", FALSE)
      [] OTHER -> Nothing(state)

(* telnet_negotiate with WILL or DO *)
OnAskYes(state) ==
    CASE state = "NO"         -> Row("WANTYES", "yes", "keep", FALSE)
      [] state = "WANTNO"     -> Row("WANTNO_OP", "none", "keep", FALSE)
      [] state = "WANTYES_OP" -> Row("WANTYES", "none", "keep", FALSE)
      [] OTHER                -> Nothing(state)

(* telnet_negotiate with WONT or DONT *)
OnAskNo(state) ==
    CASE state = "YES"        -> Row("WANTNO", "no", "keep", FALSE)
      [] state = "WANTYES"    -> Row("WANTYES_OP", "none", "keep", FALSE)
      [] state = "WANTNO_OP"  -> Row("WANTNO", "none", "keep", FALSE)
      [] OTHER                -> Nothing(state)

(* Wrong variant: the queued opposite is answered without telling the application. *)
OnYesSilent(state, supported) ==
    CASE state = "NO"         -> IF supported THEN Row("YES", "yes", "on", FALSE)
                                              ELSE Row("NO", "no", "keep", FALSE)
      [] state = "WANTNO"     -> Row("NO", "none", "off", TRUE)
      [] state = "WANTNO_OP"  -> Row("YES", "none", "keep", TRUE)
      [] state = "WANTYES"    -> Row("YES", "none", "on", FALSE)
      [] state = "WANTYES_OP" -> Row("WANTNO", "no", "keep", FALSE)
      [] OTHER                -> Nothing(state)

(* _negotiate on WILL or DO *)
OnYes(state, supported) ==
    CASE state = "NO"         -> IF supported THEN Row("YES", "yes", "on", FALSE)
                                              ELSE Row("NO", "no", "keep", FALSE)
      [] state = "WANTNO"     -> Row("NO", "none", "off", TRUE)
      [] state = "WANTNO_OP"  -> Row("YES", "none", "keep", TRUE)
      [] state = "WANTYES"    -> Row("YES", "none", "on", FALSE)
      [] state = "WANTYES_OP" -> Row("WANTNO", "no", "on", FALSE)
      [] OTHER                -> Nothing(state)

(* Wrong variant: every WONT or DONT is answered, also in state NO. *)
OnNoAlwaysAnswers(state) ==
    CASE state = "NO"         -> Row("NO", "no", "keep", FALSE)
      [] state = "YES"        -> Row("NO", "no", "off", FALSE)
      [] state = "WANTNO"     -> Row("NO", "none", "off", FALSE)
      [] state = "WANTNO_OP"  -> Row("WANTYES", "yes", "off", FALSE)
      [] OTHER                -> Row("NO", "none", "keep", FALSE)

(* Wrong variant: the queued opposite is lost. *)
OnNoDropsQueue(state) ==
    CASE state = "YES"        -> Row("NO", "no", "off", FALSE)
      [] state = "WANTNO"     -> Row("NO", "none", "off", FALSE)
      [] state = "WANTNO_OP"  -> Row("WANTYES", "none", "off", FALSE)
      [] state = "NO"         -> Nothing(state)
      [] OTHER                -> Row("NO", "none", "keep", FALSE)

(* _negotiate on WONT or DONT *)
OnNo(state) ==
    CASE state = "NO"         -> Nothing(state)
      [] state = "YES"        -> Row("NO", "no", "off", FALSE)
      [] state = "WANTNO"     -> Row("NO", "none", "off", FALSE)
      [] state = "WANTNO_OP"  -> Row("WANTYES", "yes", "off", FALSE)
      [] OTHER                -> Row("NO", "none", "keep", FALSE)
=============================================================================
