SPECIFICATION ToolSpec
CONSTANTS
  InSize = 2
  OutSize = 2
  InPipe = 2
  OutPipe = 1
  MaxCommands = 2
  MaxData = 2
PROPERTIES CommandsAnswered WaiterWakes FramesDelivered
CHECK_DEADLOCK FALSE
