\* The delays of the code in ticks of 10 ms; contacts bounce for up to 40 ms.
CONSTANTS
    Debounce = 2
    StepDelay = 20
    LoopDelay = 5
    Bounce = 4
    SpikeGap = 4
    MaxLate = 1
SPECIFICATION ButtonSpec
INVARIANTS
    ButtonTypeOK
    PressToggled
    HeldIsStepped
PROPERTY
    OneTogglePerPress
