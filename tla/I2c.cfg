SPECIFICATION FairSpec
CONSTANTS
    NReg = 4
    Val = {0, 1}
    Axes = 2
    Calls = {"LIS3LEnable", "LIS3LWhoAmI", "LIS3LGetXYZ", "GetADC"}
    Faults = {"nack", "arbitration"}
INVARIANTS TypeOK TransferDone RxFits
PROPERTIES TransferEnds BusReleased
