SPECIFICATION Spec
CONSTANTS
    Numerals <- MCNumerals
    Dotted <- MCDotted
    Coloned <- MCColoned
    Instants <- MCInstants
    AfterAS <- MCAfterAS
    Inputs <- MCInputs
INVARIANTS
    FirewallCloudMetadata
