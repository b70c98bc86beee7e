----------------------- MODULE MCNotificationDispatch -----------------------
(***************************************************************************)
(* Instances of NotificationDispatch for TLC.  One unit of time stands for *)
(* ten seconds, the gateway's default timeout of a target; the controllers *)
(* wait for two of them.                                                   *)
(***************************************************************************)
EXTENDS NotificationDispatch

(* Two targets with the default timeout: together they may use up all the  *)
(* time the client has, so that the second is cut off when both hang.      *)
DefaultTimeouts == <<1, 1>>
=============================================================================
