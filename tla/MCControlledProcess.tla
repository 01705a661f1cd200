------------------------ MODULE MCControlledProcess ------------------------
(* Small instances of ControlledProcess: SIGINT, which can be caught, and   *)
(* SIGKILL, which cannot.                                                   *)
EXTENDS ControlledProcess

NotHandling == [handle_signals |-> FALSE, chain_handlers |-> TRUE, signals |-> Catchable]
Handling == [NotHandling EXCEPT !.handle_signals = TRUE]
HandlingOthers ==
    [handle_signals |-> TRUE, chain_handlers |-> FALSE, signals |-> Signal \ Catchable]

MCDefaults == {NotHandling, Handling}
MCDefaultConfiguration == {NotHandling}
MCConfigurations == {NotHandling, Handling, HandlingOthers}
=============================================================================
