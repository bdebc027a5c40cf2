CONSTANTS
    Subjects = {"gains"}
    Modes = {m7, m24}
    FirstMode = m7
    LastMode = m24
    MaxEmpty = 3
    Elapsed = 2
    Hang = 1
    MaxCount = 4
    Bodies <- MCBodies
    Cuts = {0, 1, 5}
    Durations = {19, 20, 79, 100000}
    MaxInt = 2000
    Abs8 = {0, 115, 255}
    Abs9 = {511}
    Rel5 = {31}
    Rel6 = {0, 63}
    Noises <- MCNoises
    Scalings = {0, 8}
    Entries <- MCEntries
    Words = {0, 1398101, 2796202, 4194303, 3266215}
    SmallTrack = 3
    Width = 4
    Fractions <- MCFractions
    Numbers <- MCNumbers
    Octaves = {0, 3, 7, 10, 14}
    Order = 4
    mean_isf <- MCMean
    isf_init <- MCInit
    Residuals <- MCResiduals
    NoiseIsfs <- MCNoiseIsfs
    MaxFrames = 5
    Isps <- MCIsps
    Spectra <- MCSpectra
    Waits = {0, 2, 7, 33}
    Seeds <- MCSeeds
SPECIFICATION AmrSpec
CHECK_DEADLOCK FALSE
PROPERTY
    PastGainsKept
