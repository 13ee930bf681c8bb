---------------------------- MODULE MCScpiStatus ----------------------------
(* Instances of ScpiStatus: one error of each class the device pushes. *)
EXTENDS ScpiStatus

MCErrors == {-113, -241, -363}
MCEseMasks == {{}, {"CER"}, {"DER", "OPC"}}
MCSreMasks == {{}, {"QMA"}, {"ESR", "SRQ"}}
MCQueseMasks == {{}, {"questionable"}}
=============================================================================
