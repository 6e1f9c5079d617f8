\* Rings of two to five bytes under any calls.
SPECIFICATION Spec
CONSTANTS
  Data <- MCData
  Capacities = {2, 3, 5}
PROPERTIES
  ImplementsQueue
