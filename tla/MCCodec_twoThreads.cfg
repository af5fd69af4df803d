CONSTANTS
  c1 = c1
  c2 = c2
  noCall = noCall
  Callers <- MCCallers
  Inputs <- MCFewInputs
  Serial = FALSE
  HexLimit = 6
  Datas <- MCDatas
  Sizes = {0, 1, 2, 3, 255}
  Texts <- MCTexts
  Parts <- MCParts
  Chars = {32, 97}
  NoCall = noCall
SPECIFICATION CodecSpec
INVARIANTS
  Encoded
