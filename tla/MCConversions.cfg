CONSTANTS
  caller1 = caller1
  caller2 = caller2
  noCall = noCall
  Callers <- MCCallers
  Inputs <- MCInputs
  Serial = TRUE
  HexLimit = 6
  Datas <- MCDatas
  Sizes = {0, 1, 2, 3, 255}
  Texts <- MCTexts
  Parts <- MCParts
  Chars = {32, 97}
  NoCall = noCall
  MaxExponent = 308
  IndentSize = 512
  MaxSize <- MCMaxSize
  Scalars <- MCScalars
  Inserted <- MCInserted
  Others <- MCOthers
  Patches <- MCPatches
  KeyNames <- MCKeyNames
  Paths <- MCPaths
  MaxNodes = 3
  MaxKey = 2
  Languages <- MCLanguages
  Compared <- MCCompared
  Rejected <- MCRejected
SPECIFICATION ConversionsSpec
INVARIANTS
  Encoded
  Decoded
  FitsBuffer
  Unpadded
  HexDecoded
  StringsKept
  TextRestored
  BinaryRestored
  PatchRestores
  PointersResolve
  OrderIsTotal
  AcceptsGrammar
  GettersAgree
