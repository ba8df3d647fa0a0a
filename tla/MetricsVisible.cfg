SPECIFICATION Spec
CONSTANTS
    Sanitized <- MCSanitized
    DigitFirst <- MCDigitFirst
    NumberOf <- MCNumberOf
    Suffix <- MCSuffix
    CommonFields <- MCCommonFields
    AttributeFields <- MCAttributeFields
    NvmeFields <- MCNvmeFields
    SensorInputs <- MCSensorInputs
    ReportInputs <- MCReportInputs
    NoInfo = NoInfo
INVARIANT AliasKeepsVisible
CHECK_DEADLOCK FALSE
