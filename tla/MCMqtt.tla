------------------------------- MODULE MCMqtt -------------------------------
(* Instance of Mqtt: one topic of the display beside the one of motion.    *)
EXTENDS Mqtt

MCDisplayTopic == {"display_mode"}
MCValues == [t \in MCDisplayTopic |-> {"clock", "message"}]
=============================================================================
