CONSTANTS
  Thread = {t1, t2}
  NoThread = NoThread
  MaxMessages = 1
  MaxFiles = 2
SPECIFICATION Spec
PROPERTY LaterControllersNeverExit
