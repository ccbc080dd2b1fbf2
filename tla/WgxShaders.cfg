SPECIFICATION CompilerSpec
CONSTANTS
  Sizes = {0, 4}
  Programs <- MCPrograms
  ExpressionSizes = {0, 5}
  Expressions <- MCExpressions
CHECK_DEADLOCK FALSE
INVARIANTS
  ParseInvertsWriting
  SpirvIsStructured
  SpirvRunsAsWritten
  GlslRunsAsWritten
  ExpressionsAreReadRight
  ExpressionsMeanTheSame
