\* The literal reading of the "consecutive" comment, refuted by an
\* out-of-range reading in the middle of the run.
CONSTANTS
    Readings <- MCReadings
    InitVal = 0
    Min = 0
    Max = 8
    MaxDiff = 1
    MaxConsecutiveRejects = 2
    None = None
SPECIFICATION Spec
PROPERTY JumpNeedsConsecutiveRun
