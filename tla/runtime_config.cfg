SPECIFICATION ConfigSpec
CONSTANTS
    Servers = {i1, i2}
    MaxVersion = 2
PROPERTY ChangesGoLive
CHECK_DEADLOCK FALSE
