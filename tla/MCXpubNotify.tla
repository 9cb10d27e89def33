---------------------------- MODULE MCXpubNotify ----------------------------
(***************************************************************************)
(* XSUB sockets at one XPUB, under the policies of its options.            *)
(***************************************************************************)
EXTENDS XpubNotify, TLC

CONSTANTS x1, x2, t1, t2

Quietly == [verbose_subscribe |-> FALSE, verbose_unsubscribe |-> FALSE,
            manual |-> FALSE, manual_last_value |-> FALSE]
LastValue == [verbose_subscribe |-> TRUE, verbose_unsubscribe |-> TRUE,
              manual |-> TRUE, manual_last_value |-> TRUE]

(* Two XSUB sockets and two topics at an XPUB that is there first. *)
Settling ==
  [xsubs |-> {x1, x2}, topics |-> {t1, t2}, policy |-> Quietly,
   verboseUnsub |-> FALSE, bindFirst |-> TRUE, maxNotes |-> 5]

(* They race with the bind, and everything is notified. *)
Racing ==
  [Settling EXCEPT !.topics = {t1}, !.policy = LastValue, !.verboseUnsub = TRUE,
                   !.bindFirst = FALSE, !.maxNotes = 3]

(* One XSUB, which connects after the bind or races with it. *)
Alone == {[Settling EXCEPT !.xsubs = {x1}, !.bindFirst = first] : first \in BOOLEAN}

Working == {Settling, Racing} \cup Alone

(* Two XSUB sockets and one topic. *)
Crossing == {[Settling EXCEPT !.topics = {t1}, !.maxNotes = 4]}
=============================================================================
