--------------------------- MODULE MCCapacityProbe ---------------------------
(* Two exact recovery targets and a model the scheduler does not know.       *)
EXTENDS CapacityProbe

CONSTANTS glm5, glm46, glmX

MCModels == {glm5, glm46, glmX}
MCRecovery == <<glm46, glm5>>
=============================================================================
