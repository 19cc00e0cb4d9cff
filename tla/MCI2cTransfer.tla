--------------------------- MODULE MCI2cTransfer ---------------------------
EXTENDS I2cTransfer, TLC

CONSTANTS task1, task2, sensor, absent

MCTasks == {task1, task2}
MCDevices == {sensor, absent}
MCPresent == {sensor}

Ask(d, rd, r, n) == [device |-> d, read |-> rd, reg |-> r, size |-> n]
\* checkDeviceResponse() is a read of no bytes.
MCRequests == {Ask(absent, TRUE, 1, 0), Ask(sensor, TRUE, 1, 2),
               Ask(sensor, TRUE, 2, 1), Ask(sensor, FALSE, 1, 2)}
=============================================================================
