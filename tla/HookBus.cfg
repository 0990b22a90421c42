SPECIFICATION Spec
CONSTANTS
  Phases = {"before_handler", "handler_exception", "response_sent"}
  Aliases = {"handler_exception", "response_sent"}
  Handles = {h1, h2}
  Threads = {t1}
  MaxSlotId = 3
INVARIANTS TypeOK GateAccurate RegistrationsOwned FiringComplete FiringSound FiringInOrder
