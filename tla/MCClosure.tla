----------------------------- MODULE MCClosure -----------------------------
(***************************************************************************)
(* TLC instances of Closure: the configurations.                           *)
(***************************************************************************)
EXTENDS Closure

(***************************************************************************)
(* Two s2n endpoints, in an established connection or after a failed       *)
(* handshake, and a foreign client in an established one: of TLS 1.3,      *)
(* where user_canceled is ignored, or of TLS 1.2 with warnings ignored.    *)
(***************************************************************************)
S2nConfigs == {c \in Config : ~c.foreign /\ c.tls13 /\ ~c.ignoreWarnings}
ForeignConfigs == {c \in Config : c.foreign /\ ~c.failed /\ c.tls13 # c.ignoreWarnings}
AllConfigs == S2nConfigs \cup ForeignConfigs

(***************************************************************************)
(* The level decides in TLS 1.2 and the description in TLS 1.3.            *)
(***************************************************************************)
SomeAlerts == {<<"warning", "close_notify">>, <<"warning", "user_canceled">>,
               <<"warning", "other">>, <<"fatal", "other">>}
============================================================================
