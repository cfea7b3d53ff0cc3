\* The decryption tool on files of whole and partial pages, right and wrong passwords, every step failing.
CONSTANTS
    NoArg = NoArg
    Files <- MC_Files
    MayFail <- MC_MayFail
    ReadMayFail = TRUE
SPECIFICATION Spec
INVARIANTS UnescapeMatchesDoc ExitCodeTruthful
PROPERTIES Termination
