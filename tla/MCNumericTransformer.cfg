SPECIFICATION Spec
CONSTANTS
    Var <- AllReadings
    Zero = Zero
    Reg = {1, 2}
    W64 = 4
    W32 = 2
    W16 = 1
    W8 = 1
    ByteBits = 1
    BigEndian = FALSE
    Setup <- Narrowing
    Body <- All
    Exact <- Refuted
    MaxSetup = 2
    MaxBody = 1
INVARIANT
    ValuesCovered
CHECK_DEADLOCK FALSE
