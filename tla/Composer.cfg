SPECIFICATION Spec
CONSTANTS
  Programs <- MCPrograms
  Annotations <- MCAnnotations
  MaxInline = 4
  ParseArgument <- MCParseArgument
  ResolveClass <- MCResolveClass
  ParseInBody <- MCParseInBody
  GetType <- MCGetType
  VarsContained <- MCVarsContained
  OverloadCompatible <- MCOverloadCompatible
  DefaultValue <- MCDefaultValue
  DefaultCompatible <- MCDefaultCompatible
  Instantiations <- MCInstantiations
  AllAssigned <- MCAllAssigned
INVARIANTS
  ClassesAsPython
  FieldsInitialised
  AnnotationsAgree
  DefinitionsAgree
PROPERTIES
  DefinitionsStable
CHECK_DEADLOCK FALSE
