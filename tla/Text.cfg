CONSTANTS
  INT_MIN <- MCIntMin
  Chars = {48, 57, 65, 90, 97, 121, 122, 43}
  Keys <- MCKeys
  MaxLen = 3
SPECIFICATION TextSpec
CHECK_DEADLOCK FALSE
INVARIANTS CipherExact StringsExact  FieldsExact FindsSymbol ImagesLoad FindsToken
 
