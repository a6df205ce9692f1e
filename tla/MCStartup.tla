----------------------------- MODULE MCStartup -----------------------------
(* Settings of Startup for TLC.                                               *)
EXTENDS Startup

CONSTANTS q1, q2, bad

MCInputs ==
    [queueFlags : {<<>>, <<q1, q1>>, <<Empty>>},
     initialQueues : {<<>>, <<Empty, q2>>, <<q2, bad>>},
     restFlag : {Unset, Empty}, restEnv : {Unset, Empty, Port},
     issuerFlag : {Unset, BadIssuer}, issuerEnv : {Unset, Issuer}]
=============================================================================
